---- MODULE Spec2Model ----
(***************************************************************************)
(* Model of flask_auto_healer's core pipeline                              *)
(*   FlaskProjectDetector.detect -> DiagnosticEngine.diagnose ->           *)
(*   HealingEngine.heal -> (next run) detect + diagnose                    *)
(* over a project tree held as text.  A file is the sequence of its lines  *)
(* (content.split('\n'); '\n'.join(lines) is the inverse on it), a line is *)
(* a string, and the substring tests, regular expressions and the          *)
(* ast.parse calls of the code are computed on that text.                  *)
(***************************************************************************)
EXTENDS Integers, Sequences, FiniteSets, TLC

(***************************************************************************)
(* Text primitives (Python str / re building blocks)                       *)
(***************************************************************************)
Lower == {"a","b","c","d","e","f","g","h","i","j","k","l","m",
          "n","o","p","q","r","s","t","u","v","w","x","y","z"}
Upper == {"A","B","C","D","E","F","G","H","I","J","K","L","M",
          "N","O","P","Q","R","S","T","U","V","W","X","Y","Z"}
Digit == {"0","1","2","3","4","5","6","7","8","9"}
\* the regex class \w
WordChar == Lower \cup Upper \cup Digit \cup {"_"}
\* the regex class \s, and what str.strip() removes
Space == {" ", "\t", "\n"}
Quote == {"'", "\""}

Min(a, b) == IF a <= b THEN a ELSE b
Max(a, b) == IF a >= b THEN a ELSE b
\* the least and the greatest element of a non-empty set of numbers
MinOf(S) == CHOOSE i \in S : \A j \in S : i <= j
MaxOf(S) == CHOOSE i \in S : \A j \in S : i >= j

\* s[i] (1-based), "" when out of range
At(s, i) == IF i >= 1 /\ i <= Len(s) THEN SubSeq(s, i, i) ELSE ""
\* s[i-1:] in Python terms: the text from position i on
From(s, i) == SubSeq(s, i, Len(s))
\* s[a-1:b] of Python, clamped to the string
Sub(s, a, b) == SubSeq(s, Max(a, 1), Min(b, Len(s)))
\* whether sub occurs in s at position i
MatchAt(s, i, sub) ==
    /\ i >= 1
    /\ i + Len(sub) - 1 <= Len(s)
    /\ SubSeq(s, i, i + Len(sub) - 1) = sub
\* str.startswith / str.endswith
StartsWith(s, p) == MatchAt(s, 1, p)
EndsWith(s, p) == Len(s) >= Len(p) /\ MatchAt(s, Len(s) - Len(p) + 1, p)
\* least position >= i where sub occurs in s, 0 if none (str.find, 1-based)
FindFrom(s, sub, i) ==
    LET hits == {j \in i..(Len(s) - Len(sub) + 1) : MatchAt(s, j, sub)}
    IN  IF hits = {} THEN 0 ELSE CHOOSE j \in hits : \A h \in hits : j <= h
Find(s, sub) == FindFrom(s, sub, 1)
\* sub in s
Contains(s, sub) == \E j \in 1..(Len(s) - Len(sub) + 1) : MatchAt(s, j, sub)
\* first position >= i whose character is not in class cs (Len(s)+1 if none):
\* the end of a greedy cs* starting at i
SkipClass(s, i, cs) ==
    LET stops == {j \in i..Len(s) : At(s, j) \notin cs}
    IN  IF stops = {} THEN Max(i, Len(s) + 1)
        ELSE CHOOSE j \in stops : \A h \in stops : j <= h
\* first position >= i whose character is in class cs (Len(s)+1 if none):
\* the end of a greedy [^cs]* starting at i
SkipUntil(s, i, cs) ==
    LET stops == {j \in i..Len(s) : At(s, j) \in cs}
    IN  IF stops = {} THEN Max(i, Len(s) + 1)
        ELSE CHOOSE j \in stops : \A h \in stops : j <= h
\* str.lstrip(), str.rstrip(), str.strip()
LStrip(s) == From(s, SkipClass(s, 1, Space))
RStrip(s) ==
    LET keep == {j \in 1..Len(s) : At(s, j) \notin Space}
    IN  IF keep = {} THEN ""
        ELSE SubSeq(s, 1, CHOOSE j \in keep : \A h \in keep : j >= h)
Strip(s) == LStrip(RStrip(s))

\* str.split(sep): the pieces of s between the occurrences of sep
RECURSIVE Split(_, _)
Split(s, sep) ==
    LET j == Find(s, sep)
    IN  IF j = 0 THEN <<s>>
        ELSE <<SubSeq(s, 1, j - 1)>> \o Split(From(s, j + Len(sep)), sep)
\* sep.join(parts)
RECURSIVE Join(_, _)
Join(parts, sep) ==
    IF parts = <<>> THEN ""
    ELSE IF Len(parts) = 1 THEN parts[1]
    ELSE parts[1] \o sep \o Join(Tail(parts), sep)
\* str.replace(old, new): every non-overlapping occurrence, left to right
RECURSIVE Replace(_, _, _)
Replace(s, old, new) ==
    LET j == Find(s, old)
    IN  IF j = 0 THEN s
        ELSE SubSeq(s, 1, j - 1) \o new \o Replace(From(s, j + Len(old)), old, new)
\* the text of a file as one string, and back
Content(lines) == Join(lines, "\n")
Lines(content) == Split(content, "\n")
\* str.count(sub)
RECURSIVE Count(_, _)
Count(s, sub) ==
    LET j == Find(s, sub)
    IN  IF j = 0 THEN 0 ELSE 1 + Count(From(s, j + Len(sub)), sub)

(***************************************************************************)
(* Sequence primitives (Python list operations)                            *)
(***************************************************************************)
\* list.insert(i, x) with a 0-based index i (clamped to the list's length)
Insert(seq, i, x) ==
    LET k == Min(i, Len(seq))
    IN  SubSeq(seq, 1, k) \o <<x>> \o SubSeq(seq, k + 1, Len(seq))
\* list.pop(i) with a 0-based index i: the list without that element
Pop(seq, i) == SubSeq(seq, 1, i) \o SubSeq(seq, i + 2, Len(seq))
\* lines[i] = x with a 0-based index i
SetAt(seq, i, x) == [seq EXCEPT ![i + 1] = x]
\* the elements of seq that satisfy Test, in order
SelectIdx(seq, Test(_)) == SelectSeq([i \in 1..Len(seq) |-> i], Test)
\* F applied to the value of v, which is computed once
Let(v, F(_)) == CHOOSE y \in {F(x) : x \in {v}} : TRUE
\* the state after 'for i in 1..n: st = Step(st, i)', begun in state init; the
\* range is halved, so that the evaluation nests no deeper than log n
Fold(Step(_, _), init, n) ==
    LET RECURSIVE R(_, _, _)
        R(st, lo, hi) ==
            IF lo > hi THEN st
            ELSE IF lo = hi THEN Step(st, lo)
            ELSE Let(R(st, lo, (lo + hi) \div 2),
                     LAMBDA x : R(x, (lo + hi) \div 2 + 1, hi))
    IN  R(init, 1, n)
\* concatenation of a sequence of sequences
RECURSIVE Flatten(_)
Flatten(ss) == IF ss = <<>> THEN <<>> ELSE Head(ss) \o Flatten(Tail(ss))
Range(seq) == {seq[i] : i \in 1..Len(seq)}

(***************************************************************************)
(* Python source text as ast.parse sees it.                                *)
(* The lexer and the block parser below cover the Python that the project  *)
(* files of this model are written in: one logical line per physical line, *)
(* '#' comments, single- or double-quoted strings without escapes, import  *)
(* and from-import lines, decorators, def and class headers (with an       *)
(* optional one-line body), other compound headers ending in ':', simple   *)
(* statements, and blocks delimited by indentation.                        *)
(***************************************************************************)
Keywords == {"def", "class", "return", "pass", "import", "from", "as", "if",
             "else", "for", "in", "while", "not", "and", "or", "True", "False",
             "None", "lambda", "with", "try", "except"}
OpenBr == {"(", "[", "{"}
CloseBr == {")", "]", "}"}

\* the token of a line that starts at the non-blank position i, and the position
\* after it: [k |-> kind, t |-> text, at |-> column], next
TokenAt(s, i, c) ==
    IF c \in Quote
    THEN LET j == FindFrom(s, c, i + 1)
             e == IF j = 0 THEN Len(s) + 1 ELSE j
         IN  [tok |-> [k |-> "str", t |-> SubSeq(s, i + 1, e - 1), at |-> i],
              next |-> e + 1]
    ELSE IF c \in WordChar
    THEN LET e == SkipClass(s, i, WordChar)
         IN  [tok |-> [k |-> IF c \in Digit THEN "num" ELSE "id",
                       t |-> SubSeq(s, i, e - 1), at |-> i],
              next |-> e]
    ELSE [tok |-> [k |-> "op", t |-> c, at |-> i], next |-> i + 1]

\* the tokens of one line from position i on; a '#' ends the line
RECURSIVE Lex(_, _)
LexToken(s, n) == <<n.tok>> \o Lex(s, n.next)
LexAt(s, i) ==
    IF i > Len(s) \/ At(s, i) = "#" THEN <<>>
    ELSE LexToken(s, TokenAt(s, i, At(s, i)))
Lex(s, i) == LexAt(s, SkipClass(s, i, Space))
Tokens(s) == Lex(s, 1)

IsTok(toks, i, kind, text) ==
    i >= 1 /\ i <= Len(toks) /\ toks[i].k = kind /\ toks[i].t = text
IsId(toks, i) == i >= 1 /\ i <= Len(toks) /\ toks[i].k = "id"
\* bracket nesting depth in front of token i
Depth(toks, i) ==
    Cardinality({j \in 1..(i - 1) : toks[j].k = "op" /\ toks[j].t \in OpenBr})
    - Cardinality({j \in 1..(i - 1) : toks[j].k = "op" /\ toks[j].t \in CloseBr})
\* token i is an ast.Name node: an identifier that is no keyword, no attribute
\* name (after '.') and no keyword-argument name (inside brackets, before '=')
IsNameTok(toks, i) ==
    /\ IsId(toks, i)
    /\ toks[i].t \notin Keywords
    /\ ~IsTok(toks, i - 1, "op", ".")
    /\ ~(/\ Depth(toks, i) > 0
         /\ IsTok(toks, i + 1, "op", "=")
         /\ ~IsTok(toks, i + 2, "op", "="))
\* the statement kinds of a logical line
Indent(line) == SkipClass(line, 1, {" "}) - 1
IsBlankLine(line) == Tokens(line) = <<>>
\* NAME = value (ast.Assign with one ast.Name target)
IsAssignToks(toks) ==
    /\ IsNameTok(toks, 1)
    /\ IsTok(toks, 2, "op", "=")
    /\ ~IsTok(toks, 3, "op", "=")
KindOf(toks) ==
    IF toks = <<>> THEN "blank"
    ELSE IF IsTok(toks, 1, "op", "@") THEN "decorator"
    ELSE IF IsTok(toks, 1, "id", "def") THEN "def"
    ELSE IF IsTok(toks, 1, "id", "class") THEN "class"
    ELSE IF IsTok(toks, 1, "id", "import") THEN "import"
    ELSE IF IsTok(toks, 1, "id", "from") THEN "from"
    ELSE IF IsTok(toks, 1, "id", "return") THEN "return"
    ELSE IF IsAssignToks(toks) THEN "assign"
    ELSE IF IsTok(toks, Len(toks), "op", ":") THEN "compound"
    ELSE "simple"
StmtKind(line) == KindOf(Tokens(line))
\* position of the ':' token that ends a def/class header (bracket depth 0), 0 if none
HeaderColon(toks) ==
    LET cs == {i \in 1..Len(toks) : IsTok(toks, i, "op", ":") /\ Depth(toks, i) = 0}
    IN  IF cs = {} THEN 0 ELSE CHOOSE i \in cs : \A h \in cs : i <= h
\* the one-line body of "def f(): stmt", as token list (<<>> when the body is a block)
InlineBody(toks) ==
    LET c == HeaderColon(toks)
    IN  IF c = 0 THEN <<>> ELSE SubSeq(toks, c + 1, Len(toks))
\* a decorator that is a call of an attribute named 'route': @x.route(...)
IsRouteDecorator(toks) ==
    LET ps == {i \in 1..Len(toks) : IsTok(toks, i, "op", "(")}
        p  == CHOOSE i \in ps : \A h \in ps : i <= h
    IN  /\ ps # {}
        /\ IsTok(toks, p - 1, "id", "route")
        /\ IsTok(toks, p - 2, "op", ".")

(***************************************************************************)
(* ast.parse(content): the block structure of a file.                      *)
(* The parse state while scanning the lines top-down:                      *)
(*   ok     no SyntaxError / IndentationError so far                       *)
(*   stack  the open blocks, innermost last: the indentation of a block's  *)
(*          statements and the def that owns it (index into funcs, 0: none)*)
(*   pend   "deco": a decorator waits for its def; "body": a header ending *)
(*          in ':' waits for its indented block; "none"                    *)
(*   funcs  the FunctionDef nodes found, in source order                   *)
(*   stmts  the statement lines found, with their block depth              *)
(***************************************************************************)
ParseStart ==
    [ok |-> TRUE, stack |-> <<[ind |-> 0, fn |-> 0]>>, pend |-> "none",
     pendInd |-> 0, pendFn |-> 0, decoRoute |-> FALSE, funcs |-> <<>>,
     stmts |-> <<>>]

\* the open blocks after a dedent to indentation ind
RECURSIVE PopTo(_, _)
PopTo(stack, ind) ==
    IF Len(stack) > 1 /\ stack[Len(stack)].ind > ind
    THEN PopTo(SubSeq(stack, 1, Len(stack) - 1), ind)
    ELSE stack

OpenFns(stack) == {stack[j].fn : j \in 1..Len(stack)} \ {0}

\* the FunctionDef nodes after a statement at line i inside the open blocks:
\* the functions that enclose it end no earlier than i, and hold a Return
\* node when the statement is one
Touch(funcs, open, i, isRet) ==
    [j \in 1..Len(funcs) |->
        IF j \in open
        THEN [funcs[j] EXCEPT !.end = i, !.ret = funcs[j].ret \/ isRet]
        ELSE funcs[j]]

\* the parse state after an accepted statement
Accept(st, i, toks, kind, ind, stack, funcs, opensBlock) ==
    [ok |-> TRUE,
     stack |-> stack,
     pend |-> IF kind = "decorator" THEN "deco"
              ELSE IF opensBlock THEN "body" ELSE "none",
     pendInd |-> ind,
     pendFn |-> IF kind = "def" THEN Len(funcs) ELSE 0,
     decoRoute |-> IF kind = "decorator"
                   THEN (st.pend = "deco" /\ st.decoRoute) \/ IsRouteDecorator(toks)
                   ELSE FALSE,
     funcs |-> funcs,
     stmts |-> Append(st.stmts, [line |-> i, kind |-> kind, depth |-> Len(stack)])]

\* a statement of the given kind and indentation, read with the blocks of
\* stack open; body is the one-line body of a def
ParseStmt(st, i, toks, kind, ind, stack, body) ==
    LET levelOk == IF st.pend = "body" THEN ind > st.pendInd
                   ELSE stack[Len(stack)].ind = ind
        decoOk == st.pend = "deco" =>
                      (kind \in {"decorator", "def", "class"} /\ ind = st.pendInd)
        headOk == kind \in {"def", "class"} => HeaderColon(toks) > 0
        isRet == \/ kind = "return"
                 \/ (kind = "def" /\ IsTok(body, 1, "id", "return"))
        newFn == [name |-> IF IsId(toks, 2) THEN toks[2].t ELSE "",
                  lineno |-> i, end |-> i, col |-> ind,
                  route |-> (st.pend = "deco" /\ st.decoRoute),
                  ret |-> isRet, depth |-> Len(stack)]
    IN  IF ~(levelOk /\ decoOk /\ headOk) THEN [st EXCEPT !.ok = FALSE]
        ELSE Accept(st, i, toks, kind, ind, stack,
                    IF kind = "def"
                    THEN Append(Touch(st.funcs, OpenFns(stack), i, isRet), newFn)
                    ELSE Touch(st.funcs, OpenFns(stack), i, isRet),
                    \/ kind = "compound"
                    \/ (kind \in {"def", "class"} /\ body = <<>>))

\* the tokens of one logical line (1-based number i) read in parse state st
ParseToks(st, i, toks, kind, ind) ==
    IF ~st.ok \/ kind = "blank" THEN st
    ELSE ParseStmt(st, i, toks, kind, ind,
                   IF st.pend = "body"
                   THEN Append(st.stack, [ind |-> ind, fn |-> st.pendFn])
                   ELSE PopTo(st.stack, ind),
                   InlineBody(toks))

ParseLine(st, i, line) ==
    Let(Tokens(line), LAMBDA toks : ParseToks(st, i, toks, KindOf(toks), Indent(line)))

\* what ast.parse returns from the parse state at the end of the file
ParseEnd(end) ==
    [ok |-> end.ok /\ end.pend = "none", funcs |-> end.funcs, stmts |-> end.stmts]

\* ast.parse(content) of the file whose lines are given: [ok, funcs, stmts];
\* ok = FALSE stands for the SyntaxError the callers catch
Parse(lines) ==
    ParseEnd(Fold(LAMBDA st, i : ParseLine(st, i, lines[i]), ParseStart, Len(lines)))

MaxDepth == 3
\* ast.walk(tree) is breadth-first: nodes of lesser block depth come first, and
\* nodes of one depth in source order
WalkOrder(nodes) ==
    Flatten([d \in 1..MaxDepth |->
                SelectSeq(nodes, LAMBDA n : n.depth = d)])

(***************************************************************************)
(* The project tree.                                                       *)
(* A path is the tuple of its components below the project root (<<>>).    *)
(* fs.files maps each regular file to its lines; fs.order lists every      *)
(* directory entry (files and directories) in the order the directory      *)
(* listing returns them, which is the order os.walk visits them in.        *)
(***************************************************************************)
ProjectName == "proj"

IsFile(fs, p) == p \in DOMAIN fs.files
Exists(fs, p) == p = <<>> \/ \E i \in 1..Len(fs.order) : fs.order[i] = p
IsDir(fs, p) == Exists(fs, p) /\ ~IsFile(fs, p)
Parent(p) == SubSeq(p, 1, Len(p) - 1)
BaseName(p) == p[Len(p)]
\* Path.parent.name of a file under the project root
ParentName(p) == IF Len(p) <= 1 THEN ProjectName ELSE p[Len(p) - 1]
\* str(path) relative to base: the components joined by '/'
PathStr(p) == Join(p, "/")
\* base / name, where name may hold several components ('a/b.html')
PathJoin(base, name) == base \o Split(name, "/")
\* the entries of directory d, in listing order
Children(fs, d) ==
    SelectSeq(fs.order, LAMBDA e : Len(e) = Len(d) + 1 /\ Parent(e) = d)

\* Path.mkdir(parents=True, exist_ok=True)
RECURSIVE Mkdirs(_, _)
Mkdirs(fs, d) ==
    IF Exists(fs, d) THEN fs
    ELSE LET up == Mkdirs(fs, Parent(d))
         IN  [up EXCEPT !.order = Append(up.order, d)]
\* open(path, 'w').write('\n'.join(lines)) into an existing directory
WriteFile(fs, p, lines) ==
    [files |-> [q \in DOMAIN fs.files \cup {p} |->
                   IF q = p THEN lines ELSE fs.files[q]],
     order |-> IF Exists(fs, p) THEN fs.order ELSE Append(fs.order, p)]
\* open(path).read().split('\n')
ReadLines(fs, p) == fs.files[p]
\* the tree without file p (removed by something other than the healer)
RemoveFile(fs, p) ==
    [files |-> [q \in DOMAIN fs.files \ {p} |-> fs.files[q]],
     order |-> SelectSeq(fs.order, LAMBDA e : e # p)]

\* 'needle in content', for a needle without a line break
InContent(lines, needle) == \E i \in 1..Len(lines) : Contains(lines[i], needle)

(***************************************************************************)
(* FlaskProjectDetector                                                    *)
(***************************************************************************)
ignore_dirs == {".git", ".github", "venv", "env", ".venv", ".env",
                "__pycache__", "node_modules", "migrations", "tests"}

\* os.walk(top), top-down: the directories visited, in order; skip names the
\* directories the caller prunes
RECURSIVE WalkDirs(_, _, _)
WalkDirs(fs, top, skip) ==
    LET subs == SelectSeq(Children(fs, top),
                          LAMBDA e : IsDir(fs, e) /\ BaseName(e) \notin skip)
    IN  <<top>> \o Flatten([i \in 1..Len(subs) |-> WalkDirs(fs, subs[i], skip)])
\* the files of directory d, in listing order
FilesOf(fs, d) == SelectSeq(Children(fs, d), LAMBDA e : IsFile(fs, e))

\* FlaskProjectDetector.__init__
None == "<None>"
\* no 'app_instance' / 'factory_function' entry in detected_structure
NoDescriptor == [file |-> <<>>, name |-> None, line |-> 0]
\* FlaskProjectDetector.__init__
NewDetector ==
    [app_files |-> <<>>, blueprint_files |-> <<>>, template_dirs |-> <<>>,
     static_dirs |-> <<>>, model_files |-> <<>>, route_files |-> <<>>,
     config_files |-> <<>>, app_instances |-> <<>>, factory_functions |-> <<>>,
     pattern |-> None, factory_function |-> NoDescriptor,
     app_instance |-> NoDescriptor]

IsFlaskFile(lines) ==
    InContent(lines, "import Flask") \/ InContent(lines, "from flask import")
HasBlueprint(lines) ==
    InContent(lines, "Blueprint(") \/ InContent(lines, "Blueprint (")
HasRoutes(lines) ==
    \/ InContent(lines, "@app.route")
    \/ InContent(lines, "@blueprint.route")
    \/ InContent(lines, ".route(")
HasModels(lines) == InContent(lines, "db.Model") \/ InContent(lines, "SQLAlchemy")
HasConfig(lines) == InContent(lines, "app.config") \/ InContent(lines, "Config")

\* FlaskProjectDetector._find_flask_files: every list is appended to
_find_flask_files(d, fs) ==
    LET dirs == WalkDirs(fs, <<>>, ignore_dirs)
        py   == Flatten([i \in 1..Len(dirs) |->
                    SelectSeq(FilesOf(fs, dirs[i]),
                              LAMBDA f : EndsWith(BaseName(f), ".py"))])
        app  == SelectSeq(py, LAMBDA f : IsFlaskFile(ReadLines(fs, f)))
        with(name) == Flatten([i \in 1..Len(dirs) |->
                         IF IsDir(fs, Append(dirs[i], name))
                         THEN <<Append(dirs[i], name)>> ELSE <<>>])
    IN  [app_files       |-> d.app_files \o app,
         blueprint_files |-> d.blueprint_files \o
                             SelectSeq(app, LAMBDA f : HasBlueprint(ReadLines(fs, f))),
         route_files     |-> d.route_files \o
                             SelectSeq(app, LAMBDA f : HasRoutes(ReadLines(fs, f))),
         model_files     |-> d.model_files \o
                             SelectSeq(app, LAMBDA f : HasModels(ReadLines(fs, f))),
         config_files    |-> d.config_files \o
                             SelectSeq(app, LAMBDA f : HasConfig(ReadLines(fs, f))),
         template_dirs   |-> d.template_dirs \o with("templates"),
         static_dirs     |-> d.static_dirs \o with("static")]

(***************************************************************************)
(* FlaskProjectDetector.get_routes                                         *)
(***************************************************************************)
RouteAttrs == {"route"}
VerbAttrs == {"get", "post", "put", "delete", "patch"}

\* One match of a route pattern that starts at the '@' in column j of a line:
\*   r'@(\w+)\.route\([\'"]([^\'"]+)[\'"](?:,\s*methods=\[([^\]]+)\])?\)'   (attrs =
\*   RouteAttrs, methodsGroup) or
\*   r'@(\w+)\.(?:get|post|put|delete|patch)\([\'"]([^\'"]+)[\'"]\)'      (VerbAttrs).
\* [ok, owner (group 1), path (group 2), methods (group 3), text (group 0)]
DecoratorEnds(line, j) ==
    LET e1 == SkipClass(line, j + 1, WordChar)
        e0 == SkipClass(line, e1 + 1, WordChar)
        e2 == SkipUntil(line, e0 + 2, Quote)
        s  == SkipClass(line, e2 + 2, Space)
    IN  [e1 |-> e1, e0 |-> e0, e2 |-> e2, s |-> s,
         m2 |-> SkipUntil(line, s + Len("methods=["), {"]"})]
DecoratorLong(line, p, methodsGroup) ==
    /\ methodsGroup
    /\ At(line, p.e2 + 1) = ","
    /\ MatchAt(line, p.s, "methods=[")
    /\ p.m2 > p.s + Len("methods=[")
    /\ At(line, p.m2) = "]"
    /\ At(line, p.m2 + 1) = ")"
DecoratorFrom(line, j, attrs, p, long) ==
    [ok      |-> /\ At(line, j) = "@"
                 /\ p.e1 > j + 1
                 /\ At(line, p.e1) = "."
                 /\ SubSeq(line, p.e1 + 1, p.e0 - 1) \in attrs
                 /\ At(line, p.e0) = "("
                 /\ At(line, p.e0 + 1) \in Quote
                 /\ p.e2 > p.e0 + 2
                 /\ At(line, p.e2) \in Quote
                 /\ (long \/ At(line, p.e2 + 1) = ")"),
     owner   |-> Sub(line, j + 1, p.e1 - 1),
     path    |-> Sub(line, p.e0 + 2, p.e2 - 1),
     methods |-> IF long THEN Sub(line, p.s + Len("methods=["), p.m2 - 1) ELSE None,
     text    |-> Sub(line, j, IF long THEN p.m2 + 1 ELSE p.e2 + 1)]
DecoratorAt(line, j, attrs, methodsGroup, p) ==
    DecoratorFrom(line, j, attrs, p, DecoratorLong(line, p, methodsGroup))
DecoratorMatch(line, j, attrs, methodsGroup) ==
    IF At(line, j) = "@"
    THEN DecoratorAt(line, j, attrs, methodsGroup, DecoratorEnds(line, j))
    ELSE [ok |-> FALSE, owner |-> "", path |-> "", methods |-> None, text |-> ""]

\* re.finditer(pattern, content) for one route pattern: the matches in text order
\* (a route decorator lies on one line)
DecoratorMatches(lines, attrs, methodsGroup) ==
    Flatten([i \in 1..Len(lines) |->
        SelectSeq([j \in 1..Len(lines[i]) |->
                      DecoratorMatch(lines[i], j, attrs, methodsGroup)],
                  LAMBDA m : m.ok)])

(***************************************************************************)
(* re.search(rf'{match.group(0)}\s*\ndef\s+(\w+)', content): the matched   *)
(* decorator text is pasted into the pattern unescaped, so it is read as a *)
(* regular expression: '(' and ')' delimit a group and match no            *)
(* character, '.' matches any character but a line break, '[...]' matches  *)
(* one character of the listed ones; every other character of a decorator  *)
(* stands for itself.                                                      *)
(***************************************************************************)
\* the atoms of the characters a..b of the text, none of them in a '[...]'
PlainAtoms(text, a, b) ==
    SelectSeq([x \in 1..(b - a + 1) |->
                  IF At(text, a + x - 1) = "." THEN [k |-> "any", cs |-> {}]
                  ELSE [k |-> "lit", cs |-> {At(text, a + x - 1)}]],
              LAMBDA atom : atom.cs \cap {"(", ")"} = {})
\* the atoms of the text from position i on, open and close being the places of
\* the next '[' and of the ']' that ends it (0: none)
RECURSIVE RegexAtoms(_, _)
AtomsUpTo(text, i, open, close) ==
    IF open = 0 \/ close = 0 THEN PlainAtoms(text, i, Len(text))
    ELSE PlainAtoms(text, i, open - 1)
         \o <<[k |-> "set", cs |-> {At(text, x) : x \in (open + 1)..(close - 1)}]>>
         \o RegexAtoms(text, close + 1)
RegexAtoms(text, i) ==
    AtomsUpTo(text, i, FindFrom(text, "[", i),
              IF FindFrom(text, "[", i) = 0 THEN 0
              ELSE FindFrom(text, "]", FindFrom(text, "[", i) + 1))

\* the atoms match the line from column j on: the column after the match, else 0
MatchAtoms(line, j, atoms) ==
    IF /\ j + Len(atoms) - 1 <= Len(line)
       /\ \A a \in 1..Len(atoms) :
              atoms[a].k = "any" \/ At(line, j + a - 1) \in atoms[a].cs
    THEN j + Len(atoms)
    ELSE 0

IsSpaceOnly(text) == \A x \in 1..Len(text) : At(text, x) \in Space
\* r'\s*\ndef\s+(\w+)' from column col of line i on: only white space up to a
\* line that starts with "def", white space and a name
DefFollows(lines, i, col) ==
    /\ IsSpaceOnly(From(lines[i], col))
    /\ \E k \in (i + 1)..Len(lines) :
          /\ StartsWith(lines[k], "def")
          /\ At(lines[k], 4) \in Space
          /\ At(lines[k], SkipClass(lines[k], 4, Space)) \in WordChar
          /\ \A b \in (i + 1)..(k - 1) : IsSpaceOnly(lines[b])

\* function_match.group(1) if function_match else None.  Group 1 of the pattern
\* is the group the decorator's own parentheses open, so it holds the text the
\* argument list matched, not the name after "def".
FirstMatch(lines, atoms, open, hits) ==
    LET first == CHOOSE h \in hits : \A g \in hits :
                     h[1] < g[1] \/ (h[1] = g[1] /\ h[2] <= g[2])
    IN  IF hits = {} THEN None
        ELSE Sub(lines[first[1]], first[2] + open - 1,
                 MatchAtoms(lines[first[1]], first[2], atoms) - 1)
FunctionMatch(lines, text) ==
    Let(RegexAtoms(text, 1), LAMBDA atoms :
        FirstMatch(lines, atoms, Find(text, "("),
            UNION {{<<i, j>> : j \in {c \in 1..Len(lines[i]) :
                       /\ MatchAtoms(lines[i], c, atoms) > 0
                       /\ DefFollows(lines, i, MatchAtoms(lines[i], c, atoms))}} :
                   i \in 1..Len(lines)}))

\* FlaskProjectDetector.get_routes
routes_in(file, lines) ==
    Let(DecoratorMatches(lines, RouteAttrs, TRUE)
        \o DecoratorMatches(lines, VerbAttrs, FALSE),
        LAMBDA ms :
            [m \in 1..Len(ms) |->
                [file |-> file,
                 app_or_blueprint |-> ms[m].owner,
                 path |-> ms[m].path,
                 methods |-> ms[m].methods,
                 function |-> FunctionMatch(lines, ms[m].text)]])
get_routes(d, fs) ==
    Flatten([f \in 1..Len(d.route_files) |->
        routes_in(d.route_files[f],
                  IF IsFile(fs, d.route_files[f])
                  THEN ReadLines(fs, d.route_files[f]) ELSE <<>>)])

(***************************************************************************)
(* FlaskProjectDetector: database type, templates, template references     *)
(***************************************************************************)
db_patterns ==
    <<[type |-> "sqlite",     pats |-> <<"sqlite://", "sqlite:///", ".db">>],
      [type |-> "postgresql", pats |-> <<"postgresql://", "postgres://", "psycopg2">>],
      [type |-> "mysql",      pats |-> <<"mysql://", "pymysql", "mysqlclient">>],
      [type |-> "mongodb",    pats |-> <<"mongodb://", "pymongo", "MongoEngine">>]>>

\* a faulty variant: the kinds are tried one after the other over all the files,
\* so the kind that comes first in the table wins over the file that comes first
_detect_database_by_kind(d, fs) ==
    LET files == d.app_files \o d.config_files
        hit(t) == \E f \in 1..Len(files) :
                      /\ IsFile(fs, files[f])
                      /\ \E q \in 1..Len(db_patterns[t].pats) :
                             InContent(ReadLines(fs, files[f]), db_patterns[t].pats[q])
        kinds == {t \in 1..Len(db_patterns) : hit(t)}
    IN  IF kinds # {} THEN db_patterns[MinOf(kinds)].type
        ELSE IF d.model_files # <<>> THEN "unknown_sql"
        ELSE "none"
\* FlaskProjectDetector._detect_database: detected_structure['database']['type']
_detect_database(d, fs) ==
    LET files == d.app_files \o d.config_files
        hit(f) == {t \in 1..Len(db_patterns) :
                      \E q \in 1..Len(db_patterns[t].pats) :
                          InContent(ReadLines(fs, files[f]), db_patterns[t].pats[q])}
        fsHit == {f \in 1..Len(files) : IsFile(fs, files[f]) /\ hit(f) # {}}
        f1 == CHOOSE f \in fsHit : \A g \in fsHit : f <= g
        t1 == CHOOSE t \in hit(f1) : \A u \in hit(f1) : t <= u
    IN  IF fsHit # {} THEN db_patterns[t1].type
        ELSE IF d.model_files # <<>> THEN "unknown_sql"
        ELSE "none"

\* FlaskProjectDetector._is_flask_instance of the value of 'NAME = value': the
\* value is a call of the name Flask or of an attribute Flask
_is_flask_instance(toks) ==
    LET ps == {i \in 1..Len(toks) : IsTok(toks, i, "op", "(")}
        p  == MinOf(ps)
    IN  /\ ps # {}
        /\ p >= 4
        /\ IsTok(toks, p - 1, "id", "Flask")
        /\ \A j \in 3..(p - 1) : IsId(toks, j) \/ IsTok(toks, j, "op", ".")
        /\ IsTok(toks, Len(toks), "op", ")")
        /\ \A j \in p..(Len(toks) - 1) : Depth(toks, j + 1) > 0
factory_names == {"create_app", "make_app", "get_app", "setup_app", "init_app"}
\* FlaskProjectDetector._is_factory_function
_is_factory_function(node, lines) ==
    \/ node.name \in factory_names
    \/ /\ InContent(SubSeq(lines, node.lineno, node.end), "Flask(")
       /\ InContent(SubSeq(lines, node.lineno, node.end), "return")
\* the descriptors _analyze_app_files appends for one file, in ast.walk order
instances_in(file, tree, lines) ==
    LET nodes == WalkOrder(SelectSeq(tree.stmts, LAMBDA n :
                     /\ n.kind = "assign"
                     /\ _is_flask_instance(Tokens(lines[n.line]))))
    IN  IF ~tree.ok THEN <<>>
        ELSE [n \in 1..Len(nodes) |->
                 [file |-> file, name |-> Tokens(lines[nodes[n].line])[1].t,
                  line |-> nodes[n].line]]
factories_in(file, tree, lines) ==
    LET nodes == SelectSeq(WalkOrder(tree.funcs),
                           LAMBDA n : _is_factory_function(n, lines))
    IN  IF ~tree.ok THEN <<>>
        ELSE [n \in 1..Len(nodes) |->
                 [file |-> file, name |-> nodes[n].name, line |-> nodes[n].lineno]]
\* FlaskProjectDetector._analyze_app_files: both lists are appended to
_analyze_app_files(d, fs) ==
    LET found(In(_, _, _)) ==
            Flatten([f \in 1..Len(d.app_files) |->
                IF IsFile(fs, d.app_files[f])
                THEN In(d.app_files[f], Parse(ReadLines(fs, d.app_files[f])),
                        ReadLines(fs, d.app_files[f]))
                ELSE <<>>])
    IN  [d EXCEPT !.app_instances = @ \o found(instances_in),
                  !.factory_functions = @ \o found(factories_in)]

\* a faulty variant: an application instance goes before a factory function
_detect_instance_first(d) ==
    IF d.app_instances # <<>>
    THEN [d EXCEPT !.pattern = IF d.blueprint_files # <<>> THEN "modular"
                                ELSE "monolithic",
                   !.app_instance = d.app_instances[1]]
    ELSE IF d.factory_functions # <<>>
    THEN [d EXCEPT !.pattern = "factory",
                   !.factory_function = d.factory_functions[1]]
    ELSE [d EXCEPT !.pattern = "unknown"]
\* FlaskProjectDetector._detect_project_pattern
_detect_project_pattern(d) ==
    IF d.factory_functions # <<>>
    THEN [d EXCEPT !.pattern = "factory",
                   !.factory_function = d.factory_functions[1]]
    ELSE IF d.app_instances # <<>>
    THEN [d EXCEPT !.pattern = IF d.blueprint_files # <<>> THEN "modular"
                                ELSE "monolithic",
                   !.app_instance = d.app_instances[1]]
    ELSE [d EXCEPT !.pattern = "unknown"]

\* detector.detect() on an instance whose lists and structure hold d: __init__
\* is the one place that empties the lists, and detect() does not run it
detect_again(d, fs) ==
    LET found == _find_flask_files(d, fs)
        e == _detect_project_pattern(_analyze_app_files(
                 [d EXCEPT !.app_files = found.app_files,
                           !.blueprint_files = found.blueprint_files,
                           !.template_dirs = found.template_dirs,
                           !.static_dirs = found.static_dirs,
                           !.model_files = found.model_files,
                           !.route_files = found.route_files,
                           !.config_files = found.config_files], fs))
    IN  [app_files |-> e.app_files, blueprint_files |-> e.blueprint_files,
         template_dirs |-> e.template_dirs, static_dirs |-> e.static_dirs,
         model_files |-> e.model_files, route_files |-> e.route_files,
         config_files |-> e.config_files, app_instances |-> e.app_instances,
         factory_functions |-> e.factory_functions, pattern |-> e.pattern,
         factory_function |-> e.factory_function, app_instance |-> e.app_instance,
         database |-> _detect_database(e, fs)]
\* FlaskProjectDetector(project_path).detect(): the file lists, the entry
\* pattern and the database type
detect(fs) == detect_again(NewDetector, fs)

template_suffixes == {".html", ".jinja", ".jinja2"}
\* FlaskProjectDetector.get_templates
get_templates(d, fs) ==
    Flatten([t \in 1..Len(d.template_dirs) |->
        LET top   == d.template_dirs[t]
            dirs  == IF IsDir(fs, top) THEN WalkDirs(fs, top, {}) ELSE <<>>
            files == Flatten([i \in 1..Len(dirs) |->
                        SelectSeq(FilesOf(fs, dirs[i]),
                            LAMBDA f : \E x \in template_suffixes :
                                           EndsWith(BaseName(f), x))])
        IN  [i \in 1..Len(files) |->
                [path |-> files[i],
                 relative_path |-> PathStr(SubSeq(files[i], Len(top) + 1, Len(files[i]))),
                 name |-> BaseName(files[i])]]])

\* one match of  name\(\s*['"]([^'"]+)['"]  that starts in column j: [ok, arg, end]
CallArgFrom(line, j, name, q, e) ==
    [ok  |-> /\ At(line, j + Len(name)) = "("
             /\ At(line, q) \in Quote
             /\ e > q + 1
             /\ At(line, e) \in Quote,
     arg |-> Sub(line, q + 1, e - 1),
     end |-> e]
CallArgAt(line, j, name, q) == CallArgFrom(line, j, name, q, SkipUntil(line, q + 1, Quote))
CallArgMatch(line, j, name) ==
    IF MatchAt(line, j, name)
    THEN CallArgAt(line, j, name, SkipClass(line, j + Len(name) + 1, Space))
    ELSE [ok |-> FALSE, arg |-> "", end |-> 0]
\* re.findall of that pattern over the lines of a file: the arguments, in order
CallArgs(lines, name) ==
    Flatten([i \in 1..Len(lines) |->
        Let(SelectSeq([j \in 1..Len(lines[i]) |-> CallArgMatch(lines[i], j, name)],
                      LAMBDA m : m.ok),
            LAMBDA ms : [h \in 1..Len(ms) |-> ms[h].arg])])

\* the elements of seq without repetitions, in order of first occurrence (dict keys)
Keys(seq) == SelectIdx(seq, LAMBDA i : \A j \in 1..(i - 1) : seq[j] # seq[i])

\* FlaskProjectDetector.get_template_references: the dict as a sequence of
\* [template, references] in insertion order
render_calls(file, args) ==
    [a \in 1..Len(args) |-> [template |-> args[a], file |-> file]]
references_by_template(refs, keys) ==
    [k \in 1..Len(keys) |->
        [template |-> refs[keys[k]].template,
         references |-> LET mine == SelectSeq(refs,
                                        LAMBDA r : r.template = refs[keys[k]].template)
                        IN  [m \in 1..Len(mine) |-> mine[m].file]]]
get_template_references(d, fs) ==
    Let(Flatten([f \in 1..Len(d.route_files) |->
            render_calls(d.route_files[f],
                         IF IsFile(fs, d.route_files[f])
                         THEN CallArgs(ReadLines(fs, d.route_files[f]), "render_template")
                         ELSE <<>>)]),
        LAMBDA refs :
            Let(Keys([i \in 1..Len(refs) |-> refs[i].template]),
                LAMBDA keys : references_by_template(refs, keys)))

(***************************************************************************)
(* DiagnosticEngine                                                        *)
(* An issue is a record with the keys the code gives it, the description   *)
(* left out.  Each _diagnose_* operator yields the issues the method       *)
(* appends to its category, in order.                                      *)
(***************************************************************************)
\* DiagnosticEngine.__init__: self.issues
NoIssues ==
    [routes |-> <<>>, templates |-> <<>>, database |-> <<>>, code |-> <<>>,
     security |-> <<>>, performance |-> <<>>]

\* str(x) inside an f-string
PyStr(x) == IF x = None THEN "None" ELSE x

\* the parse of a file a diagnosis opens; a missing file or a syntax error raises,
\* and the except clause of the caller skips the file
TryParse(fs, file) ==
    IF IsFile(fs, file) THEN Parse(ReadLines(fs, file))
    ELSE [ok |-> FALSE, funcs |-> <<>>, stmts |-> <<>>]

\* _diagnose_routes, first loop: route functions without a return
missing_return_in(file, tree) ==
    LET bad == SelectSeq(WalkOrder(tree.funcs), LAMBDA n : n.route /\ ~n.ret)
    IN  IF ~tree.ok THEN <<>>
        ELSE [i \in 1..Len(bad) |->
                 [type |-> "missing_return", file |-> file,
                  function |-> bad[i].name, line |-> bad[i].lineno,
                  severity |-> "high"]]
missing_return_issues(d, fs) ==
    Flatten([f \in 1..Len(d.route_files) |->
        missing_return_in(d.route_files[f], TryParse(fs, d.route_files[f]))])

\* a faulty variant: a route is compared with the route before it only
duplicate_of_previous_issues(routes) ==
    LET dup == SelectIdx(routes,
                   LAMBDA i : i > 1 /\ routes[i - 1].path = routes[i].path)
    IN  [k \in 1..Len(dup) |->
            [type |-> "duplicate_route", file |-> routes[dup[k]].file,
             path |-> routes[dup[k]].path, function |-> routes[dup[k]].function,
             severity |-> "high"]]

\* _diagnose_routes, second loop: a path seen before in extraction order
duplicate_route_issues(routes) ==
    LET dup == SelectIdx(routes,
                   LAMBDA i : \E j \in 1..(i - 1) : routes[j].path = routes[i].path)
    IN  [k \in 1..Len(dup) |->
            [type |-> "duplicate_route", file |-> routes[dup[k]].file,
             path |-> routes[dup[k]].path, function |-> routes[dup[k]].function,
             severity |-> "high"]]

\* _diagnose_routes, third loop: routes without a methods list
unspecified_methods_issues(routes) ==
    LET un == SelectSeq(routes, LAMBDA r : r.methods = None)
    IN  [k \in 1..Len(un) |->
            [type |-> "unspecified_methods", file |-> un[k].file,
             path |-> un[k].path, function |-> un[k].function,
             severity |-> "medium"]]

\* DiagnosticEngine._diagnose_routes
_diagnose_routes(d, fs) ==
    Let(get_routes(d, fs),
        LAMBDA routes : missing_return_issues(d, fs)
                        \o duplicate_route_issues(routes)
                        \o unspecified_methods_issues(routes))

\* findall of  {%\s*block\s+(\w+)\s*%}  in a line: the block names, in order
BlockFrom(line, j, a, c, e) ==
    [ok   |-> /\ MatchAt(line, a, "block")
              /\ c > a + Len("block")
              /\ e > c
              /\ MatchAt(line, SkipClass(line, e, Space), "%}"),
     name |-> Sub(line, c, e - 1)]
BlockName(line, j, a, c) == BlockFrom(line, j, a, c, SkipClass(line, c, WordChar))
BlockAfter(line, j, a) == BlockName(line, j, a, SkipClass(line, a + Len("block"), Space))
BlockMatch(line, j) ==
    IF MatchAt(line, j, "{%")
    THEN BlockAfter(line, j, SkipClass(line, j + 2, Space))
    ELSE [ok |-> FALSE, name |-> ""]
BlockNames(lines) ==
    Flatten([i \in 1..Len(lines) |->
        Let(SelectSeq([j \in 1..Len(lines[i]) |-> BlockMatch(lines[i], j)],
                      LAMBDA m : m.ok),
            LAMBDA ms : [h \in 1..Len(ms) |-> ms[h].name])])
\* search of  {%\s*endblock\s*(?:name)?\s*%}
HasEndblock(lines, name) ==
    \E i \in 1..Len(lines) : \E j \in 1..Len(lines[i]) :
        LET line == lines[i]
            a == SkipClass(line, j + 2, Space)
            b == SkipClass(line, a + Len("endblock"), Space)
            c == SkipClass(line, b + Len(name), Space)
        IN  /\ MatchAt(line, j, "{%")
            /\ MatchAt(line, a, "endblock")
            /\ \/ MatchAt(line, b, "%}")
               \/ (MatchAt(line, b, name) /\ MatchAt(line, c, "%}"))

\* the endpoint a url_for reference names exists among the routes
endpoint_exists(routes, ref) ==
    \E r \in 1..Len(routes) :
        \/ routes[r].function = ref
        \/ routes[r].app_or_blueprint \o "." \o PyStr(routes[r].function) = ref

\* template A is the template a reference names
SameTemplate(template, name) == template.relative_path = name \/ template.name = name

\* the issues _diagnose_templates appends, from what the detector returned
template_issues(fs, templates, refs, routes) ==
    LET missing   == SelectSeq(refs,
                         LAMBDA r : ~\E t \in 1..Len(templates) :
                                         SameTemplate(templates[t], r.template))
        syntax(t) ==
            LET lines  == ReadLines(fs, t.path)
                blocks == SelectSeq(BlockNames(lines), LAMBDA b : ~HasEndblock(lines, b))
                urls   == SelectSeq(CallArgs(lines, "url_for"),
                                    LAMBDA u : ~endpoint_exists(routes, u))
            IN  [b \in 1..Len(blocks) |->
                    [type |-> "unclosed_block", template |-> t.relative_path,
                     block |-> blocks[b], severity |-> "high"]]
                \o [u \in 1..Len(urls) |->
                    [type |-> "invalid_url_for", template |-> t.relative_path,
                     endpoint |-> urls[u], severity |-> "high"]]
        unused    == SelectSeq(templates,
                         LAMBDA t : ~\E r \in 1..Len(refs) :
                                         SameTemplate(t, refs[r].template))
    IN  [m \in 1..Len(missing) |->
            [type |-> "missing_template", template |-> missing[m].template,
             references |-> missing[m].references, severity |-> "high"]]
        \o Flatten([t \in 1..Len(templates) |-> syntax(templates[t])])
        \o [u \in 1..Len(unused) |->
            [type |-> "unused_template", template |-> unused[u].relative_path,
             severity |-> "low"]]

\* DiagnosticEngine._diagnose_templates
_diagnose_templates(d, fs) ==
    Let(get_templates(d, fs), LAMBDA templates :
    Let(get_template_references(d, fs), LAMBDA refs :
    Let(get_routes(d, fs), LAMBDA routes :
        template_issues(fs, templates, refs, routes))))

\* str.lower()
UpperLetters == "ABCDEFGHIJKLMNOPQRSTUVWXYZ"
LowerLetters == "abcdefghijklmnopqrstuvwxyz"
LowerChar(c) == IF c \in Upper THEN At(LowerLetters, Find(UpperLetters, c)) ELSE c
ToLower(s) == Join([i \in 1..Len(s) |-> LowerChar(At(s, i))], "")

(***************************************************************************)
(* FlaskProjectDetector.get_models                                         *)
(***************************************************************************)
\* the ast.ClassDef nodes of a parsed file, in source order: [name, lineno,
\* end, depth, toks]; a class ends with the last statement of its block
ClassEnd(stmts, k) ==
    LET stop == {t \in (k + 1)..Len(stmts) : stmts[t].depth <= stmts[k].depth}
    IN  stmts[IF stop = {} THEN Len(stmts) ELSE MinOf(stop) - 1].line
ClassNodes(tree, lines) ==
    LET ks == SelectIdx(tree.stmts, LAMBDA k : tree.stmts[k].kind = "class")
    IN  [c \in 1..Len(ks) |->
            Let(Tokens(lines[tree.stmts[ks[c]].line]), LAMBDA toks :
                [name |-> IF IsId(toks, 2) THEN toks[2].t ELSE "",
                 lineno |-> tree.stmts[ks[c]].line,
                 end |-> ClassEnd(tree.stmts, ks[c]),
                 depth |-> tree.stmts[ks[c]].depth,
                 toks |-> toks])]
\* a base of the class is the attribute Model of the name db or DB
HasModelBase(toks) ==
    \E i \in 4..Len(toks) :
        /\ Depth(toks, i) = 1
        /\ IsTok(toks, i - 1, "op", "(") \/ IsTok(toks, i - 1, "op", ",")
        /\ IsTok(toks, i, "id", "db") \/ IsTok(toks, i, "id", "DB")
        /\ IsTok(toks, i + 1, "op", ".")
        /\ IsTok(toks, i + 2, "id", "Model")
        /\ IsTok(toks, i + 3, "op", ")") \/ IsTok(toks, i + 3, "op", ",")
column_attrs == {"Column", "String", "Integer", "Float", "Boolean", "Date", "DateTime"}
\* FlaskProjectDetector._is_column_definition of the value of 'NAME = value':
\* the value is a call, and what it calls is an attribute of one of the names
IsColumnCall(toks, p) ==
    /\ p >= 6
    /\ IsId(toks, p - 1) /\ toks[p - 1].t \in column_attrs
    /\ IsTok(toks, p - 2, "op", ".")
    /\ \A j \in 3..(p - 1) : IsId(toks, j) \/ IsTok(toks, j, "op", ".")
    /\ IsTok(toks, Len(toks), "op", ")")
    /\ \A j \in p..(Len(toks) - 1) : Depth(toks, j + 1) > 0
_is_column_definition(toks) ==
    LET ps == {i \in 1..Len(toks) : IsTok(toks, i, "op", "(")}
    IN  ps # {} /\ IsColumnCall(toks, MinOf(ps))
\* the names assigned a column definition inside the class, in ast.walk order
model_fields(tree, lines, node) ==
    LET inside == SelectSeq(tree.stmts, LAMBDA n :
                      /\ n.kind = "assign"
                      /\ n.line > node.lineno /\ n.line <= node.end
                      /\ _is_column_definition(Tokens(lines[n.line])))
        walk   == WalkOrder(inside)
    IN  [f \in 1..Len(walk) |-> Tokens(lines[walk[f].line])[1].t]
models_in(file, tree, lines) ==
    LET nodes == SelectSeq(WalkOrder(ClassNodes(tree, lines)),
                           LAMBDA n : HasModelBase(n.toks))
    IN  IF ~tree.ok THEN <<>>
        ELSE [m \in 1..Len(nodes) |->
                 [file |-> file, name |-> nodes[m].name,
                  fields |-> model_fields(tree, lines, nodes[m]),
                  line |-> nodes[m].lineno]]
get_models(d, fs) ==
    Flatten([f \in 1..Len(d.model_files) |->
        IF IsFile(fs, d.model_files[f])
        THEN models_in(d.model_files[f], Parse(ReadLines(fs, d.model_files[f])),
                       ReadLines(fs, d.model_files[f]))
        ELSE <<>>])

\* DiagnosticEngine._diagnose_database
_diagnose_database(d, fs) ==
    IF d.database = "none"
    THEN <<[type |-> "no_database", severity |-> "medium"]>>
    ELSE LET models == get_models(d, fs)
             empty  == SelectSeq(models, LAMBDA m : m.fields = <<>>)
             users  == SelectSeq(models, LAMBDA m :
                           /\ \/ Contains(ToLower(m.name), "user")
                              \/ Contains(ToLower(m.name), "usuario")
                           /\ ~\E f \in Range(m.fields) :
                                  \/ Contains(ToLower(f), "password")
                                  \/ Contains(ToLower(f), "senha"))
         IN  [i \in 1..Len(empty) |->
                 [type |-> "empty_model", file |-> empty[i].file,
                  model |-> empty[i].name, severity |-> "medium"]]
             \o [i \in 1..Len(users) |->
                 [type |-> "user_model_without_password", file |-> users[i].file,
                  model |-> users[i].name, severity |-> "medium"]]

(***************************************************************************)
(* DiagnosticEngine._diagnose_code                                         *)
(***************************************************************************)
\* the text of tokens a..b run together ('flask', '.', 'app' -> 'flask.app')
TokText(toks, a, b) == Join([i \in 1..(b - a + 1) |-> toks[a + i - 1].t], "")
\* position of the first token from i on that is the operator op, else Len + 1
NextOp(toks, i, op) ==
    LET ps == {p \in i..Len(toks) : IsTok(toks, p, "op", op)}
    IN  IF ps = {} THEN Len(toks) + 1 ELSE CHOOSE p \in ps : \A q \in ps : p <= q
\* the aliases of an import list from token i on: [name, asname] per alias
RECURSIVE Aliases(_, _)
Aliases(toks, i) ==
    IF i > Len(toks) THEN <<>>
    ELSE IF toks[i].k = "op" /\ toks[i].t \in {",", "(", ")"} THEN Aliases(toks, i + 1)
    ELSE LET e  == Min(NextOp(toks, i, ","), NextOp(toks, i, ")"))
             as == {p \in i..(e - 1) : IsTok(toks, p, "id", "as")}
             a  == IF as = {} THEN e ELSE CHOOSE p \in as : TRUE
         IN  <<[name   |-> TokText(toks, i, a - 1),
                asname |-> IF a < e - 1 THEN toks[a + 1].t ELSE None]>>
             \o Aliases(toks, e)
\* the imports of an ast.Import / ast.ImportFrom statement line:
\* [name, asname, line], name prefixed with the module of a from-import
ImportNames(toks, lineno) ==
    LET isFrom == IsTok(toks, 1, "id", "from")
        imp  == CHOOSE p \in 1..(Len(toks) + 1) :
                    /\ p > Len(toks) \/ IsTok(toks, p, "id", "import")
                    /\ \A q \in 1..(p - 1) : ~IsTok(toks, q, "id", "import")
        mod  == TokText(toks, 2, imp - 1)
        als  == Aliases(toks, imp + 1)
    IN  [i \in 1..Len(als) |->
            [name   |-> IF isFrom /\ mod # "" THEN mod \o "." \o als[i].name
                        ELSE als[i].name,
             asname |-> als[i].asname,
             line   |-> lineno]]
ImportsOf(line, lineno) == ImportNames(Tokens(line), lineno)

\* the tokens of a statement line in which ast.Name nodes can occur: none in an
\* import, the one-line body of a def, the bases and body of a class
ExprOf(toks, kind) ==
    IF kind \in {"import", "from"} THEN <<>>
    ELSE IF kind = "def" THEN InlineBody(toks)
    ELSE IF kind = "class" THEN SubSeq(toks, 3, Len(toks))
    ELSE toks
ExprToks(line) == ExprOf(Tokens(line), StmtKind(line))
\* the ids of the ast.Name nodes of a line; with loadOnly, those of ctx Load
\* (the target of an assignment is the one Store name of a line)
NamesIn(toks, loadOnly) ==
    LET skip == IF loadOnly /\ IsAssignToks(toks) THEN {1} ELSE {}
    IN  {toks[i].t : i \in {x \in 1..Len(toks) : IsNameTok(toks, x)} \ skip}
NameIds(line, loadOnly) == Let(ExprToks(line), LAMBDA toks : NamesIn(toks, loadOnly))
AllNameIds(lines, loadOnly) == UNION {NameIds(lines[i], loadOnly) : i \in 1..Len(lines)}

\* 'a.b.c'.split('.')[-1]
LastPart(name) == LET parts == Split(name, ".") IN parts[Len(parts)]

\* _diagnose_code, first loop, for one file
unused_imports_in(file, tree, lines) ==
    LET nodes == WalkOrder(SelectSeq(tree.stmts, LAMBDA n : n.kind \in {"import", "from"}))
        imports == Flatten([n \in 1..Len(nodes) |->
                               ImportsOf(lines[nodes[n].line], nodes[n].line)])
        used  == AllNameIds(lines, FALSE)
        name_to_check(imp) == IF imp.asname # None THEN imp.asname ELSE LastPart(imp.name)
        bad   == SelectSeq(imports, LAMBDA imp : name_to_check(imp) \notin used)
    IN  IF ~tree.ok THEN <<>>
        ELSE [i \in 1..Len(bad) |->
                 [type |-> "unused_import", file |-> file, import |-> bad[i].name,
                  line |-> bad[i].line, severity |-> "low"]]
unused_import_issues(fs, file) ==
    unused_imports_in(file, TryParse(fs, file), ReadLines(fs, file))

\* the ast.Assign nodes with a Name target, in ast.walk order: [name, line]
Assignments(tree, lines) ==
    LET nodes == WalkOrder(SelectSeq(tree.stmts, LAMBDA n : n.kind = "assign"))
    IN  [n \in 1..Len(nodes) |->
            [name |-> Tokens(lines[nodes[n].line])[1].t, line |-> nodes[n].line]]

\* _diagnose_code, second loop, for one file
unused_variables_in(file, tree, lines) ==
    LET used  == AllNameIds(lines, TRUE)
        bad   == SelectSeq(Assignments(tree, lines),
                           LAMBDA a : a.name \notin used /\ ~StartsWith(a.name, "_"))
    IN  IF ~tree.ok THEN <<>>
        ELSE [i \in 1..Len(bad) |->
                 [type |-> "unused_variable", file |-> file, variable |-> bad[i].name,
                  line |-> bad[i].line, severity |-> "low"]]
unused_variable_issues(fs, file) ==
    unused_variables_in(file, TryParse(fs, file), ReadLines(fs, file))

\* DiagnosticEngine._diagnose_code
_diagnose_code(d, fs) ==
    Flatten([f \in 1..Len(d.app_files) |-> unused_import_issues(fs, d.app_files[f])])
    \o Flatten([f \in 1..Len(d.app_files) |-> unused_variable_issues(fs, d.app_files[f])])

(***************************************************************************)
(* DiagnosticEngine._diagnose_security                                     *)
(***************************************************************************)
\* sub occurs in s at position i, letter case ignored (re.IGNORECASE)
MatchAtI(s, i, sub) ==
    /\ i >= 1
    /\ i + Len(sub) - 1 <= Len(s)
    /\ LowerChar(At(s, i)) = LowerChar(At(sub, 1))
    /\ ToLower(SubSeq(s, i, i + Len(sub) - 1)) = ToLower(sub)

\* (name, least length of the quoted value) of the patterns, in the order of the code
secret_patterns ==
    <<[name |-> "SECRET_KEY", least |-> 10],
      [name |-> "password",   least |-> 6],
      [name |-> "api_key",    least |-> 10],
      [name |-> "token",      least |-> 10]>>

\* name\s*=\s*['"]([^'"]{least,})['"]  matches from column j of the line, letter
\* case ignored
SecretMatch(line, j, name, least) ==
    LET a == SkipClass(line, j + Len(name), Space)
        b == SkipClass(line, a + 1, Space)
        e == SkipUntil(line, b + 1, Quote)
    IN  /\ At(line, a) = "="
        /\ MatchAtI(line, j, name)
        /\ At(line, b) \in Quote
        /\ e - (b + 1) >= least
        /\ At(line, e) \in Quote

\* the lines on which a secret pattern matches, one entry per match
SecretHits(lines, cand, name, least) ==
    Flatten([c \in 1..Len(cand) |->
        LET js == SelectIdx(lines[cand[c]],
                            LAMBDA j : SecretMatch(lines[cand[c]], j, name, least))
        IN  [h \in 1..Len(js) |-> cand[c]]])

\* _diagnose_security, first loop, for one file: one issue per match, the
\* patterns in turn.  Every pattern holds a literal "=", so only the lines
\* with one are searched.
hardcoded_secret_issues(fs, file) ==
    IF ~IsFile(fs, file) THEN <<>>
    ELSE Let(ReadLines(fs, file), LAMBDA lines :
         Let(SelectIdx(lines, LAMBDA i : Contains(lines[i], "=")), LAMBDA cand :
             Flatten([q \in 1..Len(secret_patterns) |->
                 Let(SecretHits(lines, cand, secret_patterns[q].name,
                                secret_patterns[q].least),
                     LAMBDA hits :
                         [h \in 1..Len(hits) |->
                             [type |-> "hardcoded_secret", file |-> file,
                              line |-> hits[h], severity |-> "high"]])])))

insecure_configs ==
    <<[name |-> "DEBUG", value |-> "True"],
      [name |-> "TESTING", value |-> "True"],
      [name |-> "WTF_CSRF_ENABLED", value |-> "False"],
      [name |-> "SQLALCHEMY_TRACK_MODIFICATIONS", value |-> "True"]>>

\* re.search(name\s*=\s*value, content), on the lines that hold a "="
ConfigMatch(lines, cand, name, value) ==
    \E c \in 1..Len(cand) : \E j \in 1..Len(lines[cand[c]]) :
        LET line == lines[cand[c]]
            a == SkipClass(line, j + Len(name), Space)
        IN  /\ MatchAt(line, j, name)
            /\ At(line, a) = "="
            /\ MatchAt(line, SkipClass(line, a + 1, Space), value)

\* _diagnose_security, second loop, for one file: one issue per pattern found
insecure_config_issues(fs, file) ==
    IF ~IsFile(fs, file) THEN <<>>
    ELSE Let(ReadLines(fs, file), LAMBDA lines :
         Let(SelectIdx(lines, LAMBDA i : Contains(lines[i], "=")), LAMBDA cand :
             LET found == SelectSeq(insecure_configs,
                              LAMBDA c : ConfigMatch(lines, cand, c.name, c.value))
             IN  [i \in 1..Len(found) |->
                    [type |-> "insecure_config", file |-> file,
                     severity |-> "medium"]]))

\* DiagnosticEngine._diagnose_security: config files are app files too, and are
\* scanned once more
_diagnose_security(d, fs) ==
    LET files == d.app_files \o d.config_files
    IN  Flatten([f \in 1..Len(files) |-> hardcoded_secret_issues(fs, files[f])])
        \o Flatten([f \in 1..Len(files) |-> insecure_config_issues(fs, files[f])])

(***************************************************************************)
(* DiagnosticEngine._diagnose_performance                                  *)
(***************************************************************************)
\* the match of  for\s+\w+\s+in\s+(\w+)(?:\.query)?\.(?:all|filter)  that starts
\* at position j of the content: the position after the match, 0 if none
NPlus1Tail(content, q) ==
    IF MatchAt(content, q, ".all") THEN q + 4
    ELSE IF MatchAt(content, q, ".filter") THEN q + 7
    ELSE 0
NPlus1Owner(content, f, g) ==
    IF g = f THEN 0
    ELSE NPlus1Tail(content, IF MatchAt(content, g, ".query") THEN g + 6 ELSE g)
NPlus1In(content, d, f) ==
    IF ~MatchAt(content, d, "in") \/ f = d + 2 THEN 0
    ELSE NPlus1Owner(content, f, SkipClass(content, f, WordChar))
NPlus1Var(content, b, c) ==
    Let(SkipClass(content, c, Space), LAMBDA d :
        IF c = b \/ d = c THEN 0
        ELSE NPlus1In(content, d, SkipClass(content, d + 2, Space)))
NPlus1At(content, j) ==
    Let(SkipClass(content, j + 3, Space), LAMBDA b :
        IF ~MatchAt(content, j, "for") \/ b = j + 3 THEN 0
        ELSE NPlus1Var(content, b, SkipClass(content, b, WordChar)))
\* re.finditer of that pattern from position i on: the positions after the matches
RECURSIVE NPlus1Ends(_, _)
NPlus1Ends(content, i) ==
    Let(FindFrom(content, "for", i), LAMBDA j :
        IF j = 0 THEN <<>>
        ELSE Let(NPlus1At(content, j), LAMBDA e :
                 IF e = 0 THEN NPlus1Ends(content, j + 1)
                 ELSE <<e>> \o NPlus1Ends(content, e)))
IsIndented(line) == StartsWith(line, " ") \/ StartsWith(line, "\t")
HasQuery(line) ==
    Contains(line, ".query") \/ Contains(line, ".filter") \/ Contains(line, ".get(")
\* the issue of the loop whose header match ends on line number l: the first line
\* after l that is not blank decides (indented and with a query, or none)
n_plus_1_issue(file, lines, l) ==
    LET stops == {i \in 1..(Len(lines) - l) :
                     /\ Strip(lines[l + i]) # ""
                     /\ (~IsIndented(lines[l + i]) \/ HasQuery(lines[l + i]))}
        i0    == CHOOSE i \in stops : \A k \in stops : i <= k
    IN  IF stops = {} \/ ~IsIndented(lines[l + i0]) THEN <<>>
        ELSE <<[type |-> "n_plus_1_query", file |-> file, line |-> l + i0,
                severity |-> "medium"]>>
n_plus_1_issues(fs, file) ==
    IF ~IsFile(fs, file) THEN <<>>
    ELSE LET lines   == ReadLines(fs, file)
             content == Content(lines)
             ends    == NPlus1Ends(content, 1)
         IN  Flatten([m \in 1..Len(ends) |->
                 n_plus_1_issue(file, lines,
                                Count(SubSeq(content, 1, ends[m] - 1), "\n") + 1)])
missing_eager_loading_issues(fs, file) ==
    IF ~IsFile(fs, file) THEN <<>>
    ELSE LET lines == ReadLines(fs, file)
         IN  IF /\ InContent(lines, ".query.")
                /\ ~InContent(lines, ".join(")
                /\ ~InContent(lines, ".options(")
             THEN <<[type |-> "missing_eager_loading", file |-> file, severity |-> "low"]>>
             ELSE <<>>
_diagnose_performance(d, fs) ==
    LET files == d.route_files
    IN  Flatten([f \in 1..Len(files) |-> n_plus_1_issues(fs, files[f])])
        \o Flatten([f \in 1..Len(files) |-> missing_eager_loading_issues(fs, files[f])])

\* DiagnosticEngine.diagnose: the issues are appended to those the engine holds.
diagnose(issues, d, fs) ==
    [routes      |-> issues.routes \o _diagnose_routes(d, fs),
     templates   |-> issues.templates \o _diagnose_templates(d, fs),
     database    |-> issues.database \o _diagnose_database(d, fs),
     code        |-> issues.code \o _diagnose_code(d, fs),
     security    |-> issues.security \o _diagnose_security(d, fs),
     performance |-> issues.performance \o _diagnose_performance(d, fs)]

(***************************************************************************)
(* PresetManager                                                           *)
(***************************************************************************)
\* PresetManager._load_blog_preset: the diagnostic_rules of the preset
blog_preset ==
    [name      |-> "blog",
     routes    |-> [required_routes    |-> <<"index", "post", "category", "author">>,
                    recommended_routes |-> <<"tag", "search", "archive">>],
     models    |-> [required_fields |->
                       <<[model |-> "Post",
                          fields |-> <<"title", "content", "author", "date", "slug">>],
                         [model |-> "User",
                          fields |-> <<"username", "email", "password", "name">>],
                         [model |-> "Comment",
                          fields |-> <<"content", "author", "post", "date">>]>>],
     templates |-> [required_templates    |-> <<"index.html", "post.html", "category.html">>,
                    recommended_templates |-> <<"tag.html", "author.html", "search.html">>]]
\* PresetManager.__init__: self.preset = None
NoPreset == [name |-> None]
\* PresetManager.load_preset, for the name of an internal preset
load_preset(preset_name) == IF preset_name = "blog" THEN blog_preset ELSE NoPreset
\* the names of the list that are not among those present, one issue each
missing_issues(names, present, type, key, severity) ==
    LET missing == SelectSeq(names, LAMBDA n : n \notin present)
    IN  [i \in 1..Len(missing) |->
            [type |-> type, severity |-> severity] @@ (key :> missing[i])]
\* PresetManager.apply_preset_rules(diagnostic_engine): the issues of the engine
\* after the call
required_model_issues(rule, models) ==
    LET found == SelectSeq(models, LAMBDA m : m.name = rule.model)
    IN  IF found # <<>>
        THEN LET missing == SelectSeq(rule.fields, LAMBDA f : f \notin Range(found[1].fields))
             IN  [i \in 1..Len(missing) |->
                     [type |-> "missing_required_field", model |-> rule.model,
                      field |-> missing[i], severity |-> "high"]]
        ELSE <<[type |-> "missing_required_model", model |-> rule.model,
                severity |-> "high"]>>
apply_preset_rules(p, issues, d, fs) ==
    IF p.name = None THEN issues
    ELSE LET route_functions == {r.function : r \in Range(get_routes(d, fs))}
             models          == get_models(d, fs)
             template_names  == {t.name : t \in Range(get_templates(d, fs))}
         IN  [issues EXCEPT
                 !.routes = @
                     \o missing_issues(p.routes.required_routes, route_functions,
                                       "missing_required_route", "route", "high")
                     \o missing_issues(p.routes.recommended_routes, route_functions,
                                       "missing_recommended_route", "route", "medium"),
                 !.database = @
                     \o Flatten([i \in 1..Len(p.models.required_fields) |->
                            required_model_issues(p.models.required_fields[i], models)]),
                 !.templates = @
                     \o missing_issues(p.templates.required_templates, template_names,
                                       "missing_required_template", "template", "high")
                     \o missing_issues(p.templates.recommended_templates, template_names,
                                       "missing_recommended_template", "template",
                                       "medium")]

(***************************************************************************)
(* HealingEngine                                                           *)
(* The engine's state while it heals is the record h:                      *)
(*   fs          the project tree                                          *)
(*   fixes       self.fixes, a sequence of Fix records per category        *)
(*   backup_dir  self.backup_dir (NoDir until create_backups has run)      *)
(*   log         the file operations of the session so far, in order:      *)
(*               [op |-> "backup" | "backup_failed" | "write" | "create",  *)
(*                file |-> path]                                           *)
(* A repair operator maps h to the engine state after the try/except block *)
(* of one issue; what was done before an exception stays done.             *)
(***************************************************************************)
\* HealingEngine.__init__: self.fixes
NoFixes ==
    [routes |-> <<>>, templates |-> <<>>, database |-> <<>>, code |-> <<>>,
     security |-> <<>>, performance |-> <<>>]

\* self.backup_dir = None
NoDir == <<>>
\* project_path / 'backups' / f'backup_{int(time.time())}': the session's root
BackupRoot == <<"backups", "backup_T">>

\* HealingEngine.create_backups()
create_backups(h) ==
    [h EXCEPT !.backup_dir = BackupRoot, !.fs = Mkdirs(h.fs, BackupRoot)]

\* HealingEngine.backup_file: [ok, h]; ok = FALSE when shutil.copy2 raises
\* because the file is gone (the directories made before stay)
backup_copy(h1, file, dest) ==
    IF IsFile(h1.fs, file)
    THEN [ok |-> TRUE,
          h  |-> [h1 EXCEPT !.fs = WriteFile(Mkdirs(h1.fs, Parent(dest)), dest,
                                             ReadLines(h1.fs, file)),
                            !.log = Append(h1.log, [op |-> "backup", file |-> file])]]
    ELSE [ok |-> FALSE,
          h  |-> [h1 EXCEPT !.fs = Mkdirs(h1.fs, Parent(dest)),
                            !.log = Append(h1.log, [op |-> "backup_failed",
                                                    file |-> file])]]
backup_in(h1, file) == backup_copy(h1, file, h1.backup_dir \o file)
\* a faulty variant: the backup root is not made on demand, and without it the
\* copy is left out
backup_file_without_root(h, file) ==
    IF h.backup_dir = NoDir THEN [ok |-> IsFile(h.fs, file), h |-> h]
    ELSE backup_in(h, file)
backup_file(h, file) ==
    backup_in(IF h.backup_dir = NoDir THEN create_backups(h) ELSE h, file)

\* open(file_path, 'w').write('\n'.join(lines)) by a repair
write_file(h, file, lines) ==
    [h EXCEPT !.fs = WriteFile(h.fs, file, lines),
              !.log = Append(h.log, [op |-> IF IsFile(h.fs, file) THEN "write"
                                            ELSE "create",
                                     file |-> file])]

add_fix(h, category, fix) ==
    [h EXCEPT !.fixes = [h.fixes EXCEPT ![category] = Append(h.fixes[category], fix)]]

crud_mapping == <<"list", "show", "create", "edit", "delete">>

\* HealingEngine._infer_template_for_route
_infer_template_for_route(function_name, file) ==
    LET file_dir == ParentName(file)
        blueprint_prefix == IF file_dir # "routes" THEN file_dir \o "/" ELSE ""
        hits == {a \in 1..Len(crud_mapping) :
                    \/ StartsWith(function_name, crud_mapping[a])
                    \/ EndsWith(function_name, crud_mapping[a])}
        a1 == CHOOSE a \in hits : \A b \in hits : a <= b
        crud_action == crud_mapping[a1]
        resource == Replace(Replace(function_name, crud_action \o "_", ""),
                            "_" \o crud_action, "")
    IN  IF function_name \in {"index", "home"} THEN blueprint_prefix \o "index.html"
        ELSE IF hits # {}
             THEN blueprint_prefix \o resource \o "/" \o crud_action \o ".html"
        ELSE blueprint_prefix \o function_name \o ".html"

\* the template text _ensure_template_exists writes when base.html exists (the
\* text the f-string of line 277 spells out), split at line breaks
extending_template ==
    <<"{% extends 'base.html' %}", "", "{% block content %}",
      "<div class=\"container mt-4\">", "  <div class=\"card\">",
      "    <div class=\"card-header\">",
      "      <h2>{{ title|default('Página') }}</h2>", "    </div>",
      "    <div class=\"card-body\">",
      "      <p>Template gerado automaticamente.</p>", "    </div>", "  </div>",
      "</div>", "{% endblock %}", "">>
\* the stand-alone template text, split at line breaks
standalone_template ==
    <<"<!DOCTYPE html>", "<html lang=\"pt-br\">", "<head>",
      "    <meta charset=\"UTF-8\">",
      "    <meta name=\"viewport\" content=\"width=device-width, initial-scale=1.0\">",
      "    <title>{{ title|default('Página') }}</title>",
      "    <link href=\"https://cdn.jsdelivr.net/npm/bootstrap@5.3.0-alpha1/dist/css/bootstrap.min.css\" rel=\"stylesheet\">",
      "</head>", "<body>", "    <div class=\"container mt-4\">",
      "        <div class=\"card\">", "            <div class=\"card-header\">",
      "                <h2>{{ title|default('Página') }}</h2>", "            </div>",
      "            <div class=\"card-body\">",
      "                <p>Template gerado automaticamente.</p>", "            </div>",
      "        </div>", "    </div>", "    ",
      "    <script src=\"https://cdn.jsdelivr.net/npm/bootstrap@5.3.0-alpha1/dist/js/bootstrap.bundle.min.js\"></script>",
      "</body>", "</html>", "">>

\* a faulty variant: the scaffold is written whether the template exists or not
_ensure_template_overwrites(h, template_name, d) ==
    LET template_dir  == d.template_dirs[1]
        template_path == PathJoin(template_dir, template_name)
        fs1  == Mkdirs(h.fs, Parent(template_path))
        text == IF Exists(h.fs, Append(template_dir, "base.html"))
                THEN extending_template ELSE standalone_template
    IN  IF d.template_dirs = <<>> THEN h
        ELSE add_fix(write_file([h EXCEPT !.fs = fs1], template_path, text),
                     "templates",
                     [type |-> "created_template", template |-> template_name,
                      path |-> template_path])
\* HealingEngine._ensure_template_exists
_ensure_template_exists(h, template_name, d) ==
    LET template_dir  == d.template_dirs[1]
        template_path == PathJoin(template_dir, template_name)
        fs1  == Mkdirs(h.fs, Parent(template_path))
        text == IF Exists(h.fs, Append(template_dir, "base.html"))
                THEN extending_template ELSE standalone_template
    IN  IF d.template_dirs = <<>> THEN h
        ELSE IF Exists(h.fs, template_path) THEN h
        ELSE add_fix(write_file([h EXCEPT !.fs = fs1], template_path, text),
                     "templates",
                     [type |-> "created_template", template |-> template_name,
                      path |-> template_path])

(***************************************************************************)
(* HealingEngine._heal_routes                                              *)
(***************************************************************************)
\* the index (0-based) of the last line that starts with 'import ' or 'from ',
\* 0 if there is none
last_import_line(lines) ==
    LET is == {i \in 1..Len(lines) :
                  StartsWith(lines[i], "import ") \/ StartsWith(lines[i], "from ")}
    IN  IF is = {} THEN 0 ELSE (CHOOSE i \in is : \A j \in is : i >= j) - 1

\* render_template added to the first line that starts with 'from flask import'
extend_flask_import(lines) ==
    LET is == {i \in 1..Len(lines) : StartsWith(lines[i], "from flask import")}
        i  == CHOOSE x \in is : \A y \in is : x <= y
        line == lines[i]
        new  == IF EndsWith(line, ",") THEN line \o " render_template,"
                ELSE IF EndsWith(line, ")")
                     THEN SubSeq(line, 1, Len(line) - 1) \o ", render_template)"
                ELSE line \o ", render_template"
    IN  IF is = {} THEN lines ELSE [lines EXCEPT ![i] = new]

\* the lines after 'if render_template not in content: ...'
with_render_template_import(lines) ==
    IF InContent(lines, "render_template") THEN lines
    ELSE IF InContent(lines, "from flask import") THEN extend_flask_import(lines)
    ELSE Insert(lines, last_import_line(lines) + 1, "from flask import render_template")

\* re.match(r'^(\s*)', line).group(1)
LeadingSpace(line) == SubSeq(line, 1, SkipClass(line, 1, Space) - 1)

\* the return statement written before the last line of the function node, the
\* import added, the Fix recorded and the template made sure of
add_return(h, issue, d, lines, node, template_name) ==
    _ensure_template_exists(
        add_fix(write_file(h, issue.file,
                    Insert(with_render_template_import(lines), node.end - 1,
                           LeadingSpace(lines[node.lineno]) \o "    "
                           \o "return render_template('" \o template_name \o "')")),
                "routes",
                [type |-> "added_return", file |-> issue.file,
                 function |-> issue.function, template |-> template_name]),
        template_name, d)

\* the missing_return repair of one issue
heal_missing_return(h, issue, d) ==
    Let(backup_file(h, issue.file), LAMBDA b :
        IF ~b.ok THEN b.h
        ELSE Let(ReadLines(b.h.fs, issue.file), LAMBDA lines :
             Let(Parse(lines), LAMBDA tree :
             Let(SelectSeq(WalkOrder(tree.funcs), LAMBDA n : n.name = issue.function),
                 LAMBDA nodes :
                     IF ~tree.ok \/ nodes = <<>> THEN b.h
                     ELSE add_return(b.h, issue, d, lines, nodes[1],
                              _infer_template_for_route(issue.function, issue.file))))))

(***************************************************************************)
(* difflib.get_close_matches(word, possibilities, n=1, cutoff)             *)
(***************************************************************************)
\* the length of the longest common prefix of a[i..] and b[j..]
RECURSIVE CommonPrefix(_, _, _, _)
CommonPrefix(a, i, b, j) ==
    IF i > Len(a) \/ j > Len(b) \/ At(a, i) # At(b, j) THEN 0
    ELSE 1 + CommonPrefix(a, i + 1, b, j + 1)

\* the longest of the common blocks that start at the given pairs of positions,
\* of those the one that starts earliest in a, of those the earliest in b
longest_block(a, b, blocks) ==
    LET size(x) == CommonPrefix(a, x[1], b, x[2])
        best == CHOOSE x \in blocks : \A y \in blocks :
                    \/ size(x) > size(y)
                    \/ /\ size(x) = size(y)
                       /\ (x[1] < y[1] \/ (x[1] = y[1] /\ x[2] <= y[2]))
    IN  IF blocks = {} THEN [i |-> 0, j |-> 0, size |-> 0]
        ELSE [i |-> best[1], j |-> best[2], size |-> size(best)]

\* SequenceMatcher.find_longest_match
find_longest_match(a, b) ==
    longest_block(a, b, {<<i, j>> \in (1..Len(a)) \X (1..Len(b)) : At(a, i) = At(b, j)})

\* the number of matching characters: the sizes of get_matching_blocks() summed
\* (the longest block, and the matches to its left and to its right)
RECURSIVE matches(_, _)
matches_around(a, b, m) ==
    IF m.size = 0 THEN 0
    ELSE matches(SubSeq(a, 1, m.i - 1), SubSeq(b, 1, m.j - 1))
         + m.size
         + matches(From(a, m.i + m.size), From(b, m.j + m.size))
matches(a, b) == matches_around(a, b, find_longest_match(a, b))

\* SequenceMatcher.ratio() >= cutoff, for the cutoff num/den:
\* 2.0 * matches / (len(a) + len(b)), and 1.0 for two empty strings
ratio_at_least(a, b, num, den) ==
    IF Len(a) + Len(b) = 0 THEN num <= den
    ELSE 2 * matches(a, b) * den >= num * (Len(a) + Len(b))

\* the cutoff passed by _heal_templates: 0.6
cutoff_num == 6
cutoff_den == 10

\* the order of str: character by character, by code point (the printable
\* characters the texts of this model are written in)
Ascii == " !\"#$%&'()*+,-./0123456789:;<=>?@ABCDEFGHIJKLMNOPQRSTUVWXYZ[\\]^_abcdefghijklmnopqrstuvwxyz{|}~"
Ord(c) == Find(Ascii, c)
RECURSIVE StrLess(_, _)
StrLess(a, b) ==
    IF b = "" THEN FALSE
    ELSE IF a = "" THEN TRUE
    ELSE IF At(a, 1) # At(b, 1) THEN Ord(At(a, 1)) < Ord(At(b, 1))
    ELSE StrLess(From(a, 2), From(b, 2))

\* (ratio(a1), a1) > (ratio(a2), a2) as tuples, the ratios being r1/t1 and r2/t2
BetterRatio(r1, t1, a1, r2, t2, a2) ==
    r1 * t2 > r2 * t1 \/ (r1 * t2 = r2 * t1 /\ StrLess(a2, a1))
Better(word, a1, a2) ==
    BetterRatio(2 * matches(a1, word), Len(a1) + Len(word), a1,
                2 * matches(a2, word), Len(a2) + Len(word), a2)

\* the best of the possibilities whose indices are in ok
best_match(word, possibilities, ok) ==
    IF ok = {} THEN [raised |-> FALSE, found |-> FALSE, match |-> None]
    ELSE [raised |-> FALSE, found |-> TRUE,
          match |-> possibilities[CHOOSE i \in ok : \A j \in ok :
                        possibilities[j] = possibilities[i]
                        \/ Better(word, possibilities[i], possibilities[j])]]

\* a faulty variant: the cutoff is left out, and the best possibility wins
\* however far it is from the word
get_close_matches_without_cutoff(word, possibilities) ==
    IF \E i \in 1..Len(possibilities) : possibilities[i] = None
    THEN [raised |-> TRUE, found |-> FALSE, match |-> None]
    ELSE best_match(word, possibilities, 1..Len(possibilities))

\* difflib.get_close_matches(word, possibilities, n=1, cutoff=0.6):
\* [raised, found, match]; raised when a possibility is None (len(None))
get_close_matches(word, possibilities) ==
    IF \E i \in 1..Len(possibilities) : possibilities[i] = None
    THEN [raised |-> TRUE, found |-> FALSE, match |-> None]
    ELSE best_match(word, possibilities,
                    {i \in 1..Len(possibilities) :
                        ratio_at_least(possibilities[i], word, cutoff_num, cutoff_den)})

(***************************************************************************)
(* HealingEngine._heal_templates                                           *)
(***************************************************************************)
\* the path of the first template whose relative path is the one named, <<>> if
\* there is none
template_path_of(d, fs, relative_path) ==
    Let(SelectSeq(get_templates(d, fs), LAMBDA t : t.relative_path = relative_path),
        LAMBDA found : IF found = <<>> THEN <<>> ELSE found[1].path)


\* {%\s*block\s+  (followed by name\s*%} when name # "") matches from position
\* j of the content: [ok, end]
BlockAt(content, j, name) ==
    LET a == SkipClass(content, j + 2, Space)
        b == a + Len("block")
        c == SkipClass(content, b, Space)
        e == SkipClass(content, c + Len(name), Space)
    IN  [ok  |-> /\ MatchAt(content, j, "{%")
                 /\ MatchAt(content, a, "block")
                 /\ c > b
                 /\ name # "" => (MatchAt(content, c, name) /\ MatchAt(content, e, "%}")),
         end |-> IF name = "" THEN c ELSE e + 2]
\* the first of the matches that start at the positions js
FirstBlock(content, name, js) ==
    IF js = {} THEN [start |-> 0, end |-> 0]
    ELSE [start |-> MinOf(js), end |-> BlockAt(content, MinOf(js), name).end]
\* search of that pattern in content from position i on: [start, end] of the
\* first match, start = 0 if none
BlockSearch(content, i, name) ==
    FirstBlock(content, name, {j \in i..Len(content) : BlockAt(content, j, name).ok})

\* the content with the closing tag in front of the next block, or at its end
closed_at(content, next, closing) ==
    IF next.start > 0
    THEN SubSeq(content, 1, next.start - 1) \o closing \o "\n"
         \o From(content, next.start)
    ELSE content \o "\n" \o closing
close_block(h, issue, path, lines, content, block) ==
    IF HasEndblock(lines, issue.block) \/ block.start = 0 THEN h
    ELSE add_fix(write_file(h, path,
                     Lines(closed_at(content, BlockSearch(content, block.end, ""),
                                     "{% endblock " \o issue.block \o " %}"))),
                 "templates",
                 [type |-> "closed_block", template |-> issue.template,
                  block |-> issue.block])

\* the unclosed_block repair of one issue
heal_unclosed_block(h, issue, d) ==
    Let(template_path_of(d, h.fs, issue.template), LAMBDA path :
        IF path = <<>> THEN h
        ELSE Let(backup_file(h, path), LAMBDA b :
             IF ~b.ok THEN b.h
             ELSE Let(Content(ReadLines(b.h.fs, path)), LAMBDA content :
                  close_block(b.h, issue, path, ReadLines(b.h.fs, path), content,
                              BlockSearch(content, 1, issue.block)))))

\* the endpoints list the invalid_url_for repair builds from the routes
endpoints_of(routes) ==
    Flatten([r \in 1..Len(routes) |->
        <<routes[r].function>>
        \o IF routes[r].app_or_blueprint # "" /\ routes[r].function # None
           THEN <<routes[r].app_or_blueprint \o "." \o routes[r].function>>
           ELSE <<>>])

\* url_for\(\s*['"]endpoint\s*['"]  matches from column j of the line: [ok, end]
UrlForAt(line, j, endpoint) ==
    LET a == SkipClass(line, j + Len("url_for("), Space)
        e == SkipClass(line, a + 1 + Len(endpoint), Space)
    IN  [ok  |-> /\ MatchAt(line, j, "url_for(")
                 /\ At(line, a) \in Quote
                 /\ MatchAt(line, a + 1, endpoint)
                 /\ At(line, e) \in Quote,
         end |-> e]

\* re.sub(that pattern, "url_for('{new}'", line), from column j on
RECURSIVE sub_url_for(_, _, _, _)
sub_url_from(line, j, endpoint, new, hits) ==
    IF hits = {} THEN From(line, j)
    ELSE SubSeq(line, j, MinOf(hits) - 1) \o "url_for('" \o new \o "'"
         \o sub_url_for(line, UrlForAt(line, MinOf(hits), endpoint).end + 1,
                        endpoint, new)
sub_url_for(line, j, endpoint, new) ==
    sub_url_from(line, j, endpoint, new,
                 {k \in j..Len(line) : UrlForAt(line, k, endpoint).ok})

\* the rewrite of the template with the match difflib returned, if any
fix_url_for(h, issue, path, lines, similar) ==
    IF similar.raised \/ ~similar.found THEN h
    ELSE add_fix(write_file(h, path,
                     [i \in 1..Len(lines) |->
                         sub_url_for(lines[i], 1, issue.endpoint, similar.match)]),
                 "templates",
                 [type |-> "fixed_url_for", template |-> issue.template,
                  old_endpoint |-> issue.endpoint, new_endpoint |-> similar.match])

\* the invalid_url_for repair of one issue
heal_invalid_url_for(h, issue, d) ==
    Let(template_path_of(d, h.fs, issue.template), LAMBDA path :
        IF path = <<>> THEN h
        ELSE Let(backup_file(h, path), LAMBDA b :
             IF ~b.ok THEN b.h
             ELSE Let(get_routes(d, b.h.fs), LAMBDA routes :
                  Let(endpoints_of(routes), LAMBDA endpoints :
                      IF endpoints = <<>> THEN b.h
                      ELSE fix_url_for(b.h, issue, path, ReadLines(b.h.fs, path),
                               get_close_matches(issue.endpoint, endpoints))))))

\* the missing_template repair of one issue
heal_missing_template(h, issue, d) == _ensure_template_exists(h, issue.template, d)

(***************************************************************************)
(* HealingEngine._heal_database                                            *)
(***************************************************************************)
\* the names of Column and String that the content does not hold
imports_needed(lines) ==
    (IF InContent(lines, "Column") THEN <<>> ELSE <<"Column">>)
    \o (IF InContent(lines, "String") THEN <<>> ELSE <<"String">>)

\* the first line that starts with 'from sqlalchemy import' gets the names it
\* does not hold; every name is added to the line as it was read, so the last
\* one added is the one that stays
extend_sqlalchemy_import(lines, needed) ==
    LET is   == {i \in 1..Len(lines) : StartsWith(lines[i], "from sqlalchemy import")}
        i    == MinOf(is)
        line == lines[i]
        adds == SelectSeq(needed, LAMBDA imp : ~Contains(line, imp))
        imp  == adds[Len(adds)]
        new  == IF EndsWith(line, ",") THEN line \o " " \o imp \o ","
                ELSE IF EndsWith(line, ")")
                     THEN SubSeq(line, 1, Len(line) - 1) \o ", " \o imp \o ")"
                ELSE line \o ", " \o imp
    IN  IF is = {} \/ adds = <<>> THEN lines ELSE [lines EXCEPT ![i] = new]

\* the lines after 'if imports_needed: ...'
with_sqlalchemy_imports(lines) ==
    Let(imports_needed(lines), LAMBDA needed :
        IF needed = <<>> THEN lines
        ELSE IF InContent(lines, "from sqlalchemy import")
             THEN extend_sqlalchemy_import(lines, needed)
        ELSE Insert(lines, last_import_line(lines) + 1,
                    "from sqlalchemy import " \o Join(needed, ", ")))

\* insert_pos: the index after the last of lines[node.lineno .. node.end_lineno - 1]
\* that holds '=' and 'Column(', node.lineno if there is none; the node's line
\* numbers are those of the content as it was parsed
password_insert_pos(lines, node) ==
    LET cols == {i \in node.lineno..(node.end - 1) :
                    /\ i < Len(lines)
                    /\ Contains(lines[i + 1], "=")
                    /\ Contains(lines[i + 1], "Column(")}
    IN  IF cols = {} THEN node.lineno ELSE MaxOf(cols) + 1

password_field(attr_indent) == attr_indent \o "senha_hash = Column(String(128))"

\* the lines the repair writes for the class node of the model
add_password_field(lines, node) ==
    Let(with_sqlalchemy_imports(lines), LAMBDA edited :
        Insert(edited, password_insert_pos(edited, node),
               password_field(LeadingSpace(lines[node.lineno]) \o "    ")))

\* the user_model_without_password repair of one issue
heal_user_model_without_password(h, issue) ==
    Let(backup_file(h, issue.file), LAMBDA b :
        IF ~b.ok THEN b.h
        ELSE Let(ReadLines(b.h.fs, issue.file), LAMBDA lines :
             Let(Parse(lines), LAMBDA tree :
             Let(SelectSeq(WalkOrder(ClassNodes(tree, lines)),
                           LAMBDA n : n.name = issue.model), LAMBDA nodes :
                 IF ~tree.ok \/ nodes = <<>> THEN b.h
                 ELSE add_fix(write_file(b.h, issue.file,
                                         add_password_field(lines, nodes[1])),
                              "database",
                              [type |-> "added_password_field", file |-> issue.file,
                               model |-> issue.model])))))

(***************************************************************************)
(* HealingEngine._heal_code                                                *)
(***************************************************************************)
\* the elements of parts that Keep accepts
Filter(parts, Keep(_)) == SelectSeq(parts, Keep)
StripAll(parts) == [i \in 1..Len(parts) |-> Strip(parts[i])]

\* the lines after the edit of an 'import a, b' line, new_parts being the names kept
without_plain_import(lines, line_index, line, import_name, new_parts) ==
    IF Strip(line) = "import " \o import_name THEN Pop(lines, line_index)
    ELSE IF new_parts # <<>>
         THEN SetAt(lines, line_index, "import " \o Join(new_parts, ","))
    ELSE Pop(lines, line_index)
\* the lines after the edit of a 'from m import a, b' line
without_from_import(lines, line_index, module, new_imports) ==
    IF new_imports # <<>>
    THEN SetAt(lines, line_index,
               "from " \o module \o " import " \o Join(new_imports, ", "))
    ELSE Pop(lines, line_index)
\* the lines after the edit; after is line.split('import ')
without_import(lines, line_index, line, import_name, after) ==
    IF StartsWith(line, "import ")
    THEN without_plain_import(lines, line_index, line, import_name,
             Filter(Split(after[2], ","), LAMBDA part : Strip(part) # import_name))
    ELSE IF StartsWith(line, "from ")
    THEN without_from_import(lines, line_index,
             Strip(Split(Split(line, "from ")[2], "import ")[1]),
             Filter(StripAll(Split(after[2], ",")),
                    LAMBDA imp : imp # LastPart(import_name)))
    ELSE lines
remove_import(h, issue, lines, line, after) ==
    \* line.split('import ')[1] raises IndexError
    IF (StartsWith(line, "import ") \/ StartsWith(line, "from ")) /\ Len(after) < 2
    THEN h
    ELSE add_fix(write_file(h, issue.file,
                     without_import(lines, issue.line - 1, line, issue.import, after)),
                 "code",
                 [type |-> "removed_unused_import", file |-> issue.file,
                  import |-> issue.import])

\* the unused_import repair of one issue
heal_unused_import(h, issue) ==
    Let(backup_file(h, issue.file), LAMBDA b :
        IF ~b.ok THEN b.h
        ELSE Let(ReadLines(b.h.fs, issue.file), LAMBDA lines :
             IF issue.line - 1 < 0 \/ issue.line - 1 >= Len(lines) THEN b.h
             ELSE remove_import(b.h, issue, lines, lines[issue.line],
                                Split(lines[issue.line], "import "))))

\* re.match(r'^\s*' + name + r'\s*=', line)
AssignsTo(line, name) ==
    LET a == SkipClass(line, 1, Space)
    IN  MatchAt(line, a, name) /\ At(line, SkipClass(line, a + Len(name), Space)) = "="

\* the unused_variable repair of one issue: every assignment to the variable that
\* ast.walk reaches is removed from the text read at the start, and written
RECURSIVE remove_assignments(_, _, _, _, _)
remove_assignments(h, file, variable_name, lines, nodes) ==
    IF nodes = <<>> THEN h
    ELSE LET line_index == Head(nodes).line - 1
             done == add_fix(write_file(h, file, Pop(lines, line_index)), "code",
                             [type |-> "removed_unused_variable", file |-> file,
                              variable |-> variable_name])
         IN  remove_assignments(
                 IF AssignsTo(lines[line_index + 1], variable_name) THEN done ELSE h,
                 file, variable_name, lines, Tail(nodes))

heal_unused_variable(h, issue) ==
    Let(backup_file(h, issue.file), LAMBDA b :
        IF ~b.ok THEN b.h
        ELSE Let(ReadLines(b.h.fs, issue.file), LAMBDA lines :
             Let(Parse(lines), LAMBDA tree :
                 IF ~tree.ok THEN b.h
                 ELSE remove_assignments(b.h, issue.file, issue.variable, lines,
                          SelectSeq(Assignments(tree, lines),
                                    LAMBDA a : a.name = issue.variable)))))

(***************************************************************************)
(* HealingEngine._heal_security                                            *)
(***************************************************************************)
env_secret_key ==
    "SECRET_KEY = os.environ.get('SECRET_KEY', 'development-key-CHANGE-ME-in-production')"
todo_comment == " # TODO: Mover para variável de ambiente ou arquivo de configuração"

\* SECRET_KEY\s*=\s*['"]([^'"]+)['"]  matches from column j of the line: [ok, end]
SecretKeyAt(line, j) ==
    LET a == SkipClass(line, j + Len("SECRET_KEY"), Space)
        b == SkipClass(line, a + 1, Space)
        e == SkipUntil(line, b + 1, Quote)
    IN  [ok  |-> /\ MatchAt(line, j, "SECRET_KEY")
                 /\ At(line, a) = "="
                 /\ At(line, b) \in Quote
                 /\ e > b + 1
                 /\ At(line, e) \in Quote,
         end |-> e]

\* re.sub(that pattern, env_secret_key, line), from column j on: the text up to
\* the leftmost match, the replacement, and the rest treated alike
RECURSIVE sub_secret_key(_, _)
sub_secret_from(line, j, hits) ==
    IF hits = {} THEN From(line, j)
    ELSE SubSeq(line, j, MinOf(hits) - 1) \o env_secret_key
         \o sub_secret_key(line, SecretKeyAt(line, MinOf(hits)).end + 1)
sub_secret_key(line, j) ==
    sub_secret_from(line, j, {k \in j..Len(line) : SecretKeyAt(line, k).ok})

\* the lines the hardcoded_secret repair writes.  The loop that looks for the
\* last import line reuses the name 'line', so after it 'line' is the last line
\* of the file, and lines[line_index] is addressed after the insertion.
secret_lines(lines, line_index, line, needs_import) ==
    IF Contains(line, "SECRET_KEY")
    THEN SetAt(IF needs_import
               THEN Insert(lines, last_import_line(lines) + 1, "import os")
               ELSE lines,
               line_index,
               sub_secret_key(IF needs_import THEN lines[Len(lines)] ELSE line, 1))
    ELSE SetAt(lines, line_index, line \o todo_comment)

\* the hardcoded_secret repair of one issue
heal_hardcoded_secret(h, issue) ==
    Let(backup_file(h, issue.file), LAMBDA b :
        IF ~b.ok THEN b.h
        ELSE Let(ReadLines(b.h.fs, issue.file), LAMBDA lines :
             IF issue.line - 1 < 0 \/ issue.line - 1 >= Len(lines) THEN b.h
             ELSE add_fix(write_file(b.h, issue.file,
                              secret_lines(lines, issue.line - 1, lines[issue.line],
                                  /\ ~InContent(lines, "os.environ.get")
                                  /\ ~InContent(lines, "import os"))),
                          "security",
                          [type |-> "fixed_hardcoded_secret", file |-> issue.file,
                           line |-> issue.line])))

\* (old, new) of the str.replace calls of the insecure_config repair, in order
config_replacements ==
    <<[old |-> "DEBUG = True",
       new |-> "DEBUG = os.environ.get('FLASK_ENV', 'production') != 'production'"],
      [old |-> "TESTING = True",
       new |-> "TESTING = os.environ.get('FLASK_TESTING', 'False') == 'True'"],
      [old |-> "WTF_CSRF_ENABLED = False",
       new |-> "WTF_CSRF_ENABLED = os.environ.get('FLASK_ENV', 'production') == 'production'"],
      [old |-> "SQLALCHEMY_TRACK_MODIFICATIONS = True",
       new |-> "SQLALCHEMY_TRACK_MODIFICATIONS = False"]>>

RECURSIVE replace_configs(_, _)
replace_configs(lines, k) ==
    IF k > Len(config_replacements) THEN lines
    ELSE replace_configs(
             [i \in 1..Len(lines) |->
                 Replace(lines[i], config_replacements[k].old, config_replacements[k].new)],
             k + 1)

\* 'import os' added after the last import when the new text needs it
with_os_import(lines) ==
    IF InContent(lines, "os.environ.get") /\ ~InContent(lines, "import os")
    THEN Insert(lines, last_import_line(lines) + 1, "import os")
    ELSE lines

\* the insecure_config repair of one issue
heal_insecure_config(h, issue) ==
    Let(backup_file(h, issue.file), LAMBDA b :
        IF ~b.ok THEN b.h
        ELSE add_fix(write_file(b.h, issue.file,
                         with_os_import(replace_configs(ReadLines(b.h.fs, issue.file), 1))),
                     "security",
                     [type |-> "fixed_insecure_config", file |-> issue.file]))

(***************************************************************************)
(* HealingEngine._heal_performance                                         *)
(* 'lines' is a local variable of the method: what one repair leaves in it *)
(* is what the next repair finds (h.lines; Unbound before any assignment). *)
(***************************************************************************)
\* a local variable no statement has assigned yet
Unbound == <<"<unbound>">>
n_plus_1_comment ==
    " # TODO: Potencial problema de N+1 query, considere usar joinedload ou subqueryload"
eager_loading_comment ==
    " # TODO: Considere usar joinedload ou subqueryload para relacionamentos"

\* the n_plus_1_query repair of one issue
add_n_plus_1_warning(h, issue, lines, line_index) ==
    IF line_index < 0 \/ line_index >= Len(lines) THEN [h EXCEPT !.lines = lines]
    ELSE Let(SetAt(lines, line_index, lines[line_index + 1] \o n_plus_1_comment),
             LAMBDA new :
                 add_fix(write_file([h EXCEPT !.lines = new], issue.file, new),
                         "performance",
                         [type |-> "added_n_plus_1_warning", file |-> issue.file,
                          line |-> issue.line]))
heal_n_plus_1_query(h, issue) ==
    Let(backup_file(h, issue.file), LAMBDA b :
        IF ~b.ok THEN b.h
        ELSE add_n_plus_1_warning(b.h, issue, ReadLines(b.h.fs, issue.file),
                                  issue.line - 1))

\* re.finditer(r'(\w+)\.query\.(?:all|filter|get)\(', content): the positions of
\* the '.query.' of the matches
EagerAt(content, j) ==
    /\ At(content, j - 1) \in WordChar
    /\ \/ MatchAt(content, j + 7, "all(")
       \/ MatchAt(content, j + 7, "filter(")
       \/ MatchAt(content, j + 7, "get(")
RECURSIVE EagerMatches(_, _)
EagerMatches(content, i) ==
    Let(FindFrom(content, ".query.", i), LAMBDA j :
        IF j = 0 THEN <<>>
        ELSE IF EagerAt(content, j) THEN <<j>> \o EagerMatches(content, j + 7)
        ELSE EagerMatches(content, j + 1))
\* 'lines' after the loop over the matches: every match splits the content anew
\* and comments its line, so the list is that of the last match; with no match
\* the variable is what it was
eager_loading_lines(h, content, hits) ==
    IF hits = <<>> THEN h.lines
    ELSE LET line_index == Count(SubSeq(content, 1, hits[Len(hits)] - 1), "\n")
             lines      == Lines(content)
         IN  SetAt(lines, line_index, lines[line_index + 1] \o eager_loading_comment)
\* open(file_path, 'w') empties the file before '\n'.join(lines) is evaluated:
\* with 'lines' unbound the UnboundLocalError leaves the file empty, and no Fix
add_eager_loading_warning(h, issue, lines) ==
    IF lines = Unbound THEN write_file(h, issue.file, <<"">>)
    ELSE add_fix(write_file([h EXCEPT !.lines = lines], issue.file, lines),
                 "performance",
                 [type |-> "added_eager_loading_warning", file |-> issue.file])
\* the missing_eager_loading repair of one issue
heal_missing_eager_loading(h, issue) ==
    Let(backup_file(h, issue.file), LAMBDA b :
        IF ~b.ok THEN b.h
        ELSE Let(Content(ReadLines(b.h.fs, issue.file)), LAMBDA content :
                 add_eager_loading_warning(b.h, issue,
                     eager_loading_lines(b.h, content, EagerMatches(content, 1)))))

(***************************************************************************)
(* The projects the pipeline is run on.                                    *)
(* Each family is a small Flask project written out as text; its size is   *)
(* set by the bounds named here.                                           *)
(***************************************************************************)
EmptyFs == [files |-> <<>>, order |-> <<>>]
AddDir(fs, d) == Mkdirs(fs, d)
AddFile(fs, p, lines) == WriteFile(Mkdirs(fs, Parent(p)), p, lines)

MaxFuncs == 2
MaxBody == 2
MaxRefs == 2
MaxImports == 2
MaxAssign == 2
MaxConfigs == 2
MaxDup == 2
MaxPages == 2

AppPy == <<"app.py">>
AppLine == "app = Flask(__name__)"
\* n copies of x
Repeat(x, n) == [i \in 1..n |-> x]

\* route functions without a return
RouteHeaders ==
    <<<<"from flask import Flask", AppLine,
        "app.config['SQLALCHEMY_DATABASE_URI'] = 'sqlite:///app.db'">>,
      <<"from flask.app import Flask", AppLine>>,
      <<"from flask import Flask, render_template", AppLine>>>>
FuncNames == {"show", "index"}
RouteFunction(name, body) ==
    <<"@app.route('/" \o name \o "', methods=['GET'])">>
    \o IF body = 0 THEN <<"def " \o name \o "(): pass">>
       ELSE <<"def " \o name \o "():">> \o Repeat("    pass", body)
RouteProjects ==
    {LET lines == RouteHeaders[hd]
                  \o Flatten([i \in 1..Len(names) |-> RouteFunction(names[i], body)])
         fs    == AddFile(EmptyFs, AppPy, lines)
     IN  IF tdir THEN AddDir(fs, <<"templates">>) ELSE fs :
        hd \in 1..Len(RouteHeaders),
        names \in UNION {[1..n -> FuncNames] : n \in 1..MaxFuncs},
        body \in 0..MaxBody,
        tdir \in BOOLEAN}

\* templates that refer to an endpoint no route declares.  A handler may be
\* preceded by a commented-out decorator of an older helper, the only text the
\* function lookup of get_routes finds.
Handlers == {"show_user", "list_all_items"}
HandlerLines(name, commented) ==
    (IF commented
     THEN <<"# @app.route'/" \o name \o "'", "def old_" \o name \o "(): return 'old'">>
     ELSE <<>>)
    \o <<"@app.route('/" \o name \o "')", "def " \o name \o "(): return 'ok'">>
UrlLine == "<a href=\"{{ url_for('show_usr') }}\">user</a>"
UrlProjects ==
    {LET hs    == SelectSeq(<<"list_all_items", "show_user">>, LAMBDA x : x \in handlers)
         lines == <<"from flask import Flask", AppLine>>
                  \o Flatten([i \in 1..Len(hs) |-> HandlerLines(hs[i], commented)])
         page  == (IF open THEN <<"{% block content %}">> ELSE <<>>)
                  \o Repeat(UrlLine, refs)
     IN  AddFile(AddFile(EmptyFs, AppPy, lines), <<"templates", "page.html">>, page) :
        handlers \in SUBSET Handlers,
        commented \in BOOLEAN,
        open \in BOOLEAN,
        refs \in 1..MaxRefs}

\* unused imports and unused variables
UnusedImports == <<"import os", "import re", "import sys", "import json">>
Assigned == <<"x = 1", "x = 2", "x = 3", "x = 4">>
CodeProjects ==
    {AddFile(EmptyFs, AppPy,
             <<"from flask import Flask">> \o SubSeq(UnusedImports, 1, imports)
             \o <<AppLine>> \o SubSeq(Assigned, 1, assigns)) :
        imports \in 0..MaxImports,
        assigns \in 0..MaxAssign}

\* a hard-coded SECRET_KEY and insecure settings
SecretLine == "SECRET_KEY = \"abcdef1234567890\""
ConfigLines ==
    <<<<"DEBUG = True", "app.debug = DEBUG">>,
      <<"TESTING = True", "app.testing = TESTING">>,
      <<"WTF_CSRF_ENABLED = False", "app.csrf = WTF_CSRF_ENABLED">>,
      <<"SQLALCHEMY_TRACK_MODIFICATIONS = True",
        "app.track = SQLALCHEMY_TRACK_MODIFICATIONS">>>>
SecurityProjects ==
    {AddFile(EmptyFs, AppPy,
             <<"from flask import Flask">>
             \o (IF has_os THEN <<"import os">> ELSE <<>>)
             \o <<AppLine>>
             \o (IF has_os THEN <<"app.instance_path = os.getcwd()">> ELSE <<>>)
             \o <<SecretLine>>
             \o (IF used THEN <<"app.secret_key = SECRET_KEY">> ELSE <<>>)
             \o Flatten(SubSeq(ConfigLines, 1, configs))) :
        has_os \in BOOLEAN,
        used \in BOOLEAN,
        configs \in 0..MaxConfigs}

\* routes that declare one path several times, in one file or in two
DupNames == <<"users_b", "users_c", "users_d", "users_e">>
DupRoute(owner, path, name) ==
    <<"@" \o owner \o ".route('" \o path \o "', methods=['GET'])",
      "def " \o name \o "(): return 'ok'">>
DuplicateProjects ==
    {LET extras(owner) == Flatten([i \in 1..extra |->
                                      DupRoute(owner, "/users", DupNames[i])])
         first == <<"from flask import Flask", AppLine>>
                  \o DupRoute("app", "/users", "users_a")
                  \o DupRoute("app", "/items", "items")
         views == <<"from flask import Blueprint", "bp = Blueprint('bp', __name__)">>
                  \o extras("bp")
     IN  IF across
         THEN AddFile(AddFile(EmptyFs, AppPy, first), <<"routes", "views.py">>, views)
         ELSE AddFile(EmptyFs, AppPy, first \o extras("app")) :
        extra \in 0..MaxDup,
        across \in BOOLEAN}

\* handlers that render a template the project may lack
Pages == <<"home", "about", "contact", "help">>
PageRoute(name) ==
    <<"@app.route('/" \o name \o "', methods=['GET'])",
      "def " \o name \o "(): return render_template('" \o name \o ".html')">>
Layouts == {"none", "empty", "base", "home"}
TemplateProjects ==
    {LET lines == <<"from flask import Flask, render_template", AppLine>>
                  \o Flatten([i \in 1..pages |-> PageRoute(Pages[i])])
         fs    == AddFile(EmptyFs, AppPy, lines)
     IN  CASE layout = "none"  -> fs
           [] layout = "empty" -> AddDir(fs, <<"templates">>)
           [] layout = "base"  -> AddFile(fs, <<"templates", "base.html">>,
                                          <<"<html>{% block content %}{% endblock %}</html>">>)
           [] layout = "home"  -> AddFile(fs, <<"templates", "home.html">>,
                                          <<"<html>home</html>">>) :
        pages \in 1..MaxPages,
        layout \in Layouts}

\* a project the diagnosis finds nothing in: a database, 'app' in use, a route
\* with methods and a return
CleanProjects ==
    {AddFile(EmptyFs, AppPy,
             <<"from flask import Flask", AppLine, "DB = 'sqlite://'", "app.db = DB",
               "@app.route('/', methods=['GET'])", "def index(): return 'ok'">>)}

\* query code in one or two route files
ViewsPy == <<"views.py">>
QueryKinds == {"all", "first", "loop", "two"}
QueryRoute(kind) ==
    CASE kind = "all"   -> <<"@app.route('/all', methods=['GET'])",
                             "def all(): return User.query.all()">>
      [] kind = "first" -> <<"@app.route('/first', methods=['GET'])",
                             "def first(): return User.query.first()">>
      [] kind = "two"   -> <<"@app.route('/two', methods=['GET'])",
                             "def two():",
                             "    app.n = User.query.get(1)",
                             "    return User.query.all()">>
      [] kind = "loop"  -> <<"@app.route('/loop', methods=['GET'])",
                             "def loop():",
                             "    for u in users.all():",
                             "        app.n = u.get(1)",
                             "    return 'ok'">>
QueryProjects ==
    {LET head == <<"from flask import Flask", AppLine>>
         one  == AddFile(EmptyFs, AppPy, head \o QueryRoute(first))
     IN  IF second = "none" THEN one
         ELSE AddFile(one, ViewsPy, head \o QueryRoute(second)) :
        first \in QueryKinds,
        second \in QueryKinds \cup {"none"}}

\* a user model in the application file: with or without an import from
\* sqlalchemy above the class, and with different columns
ModelBodies == {"none", "int", "str", "two"}
ModelBody(kind) ==
    CASE kind = "none" -> <<"    pass">>
      [] kind = "int"  -> <<"    id = db.Column(db.Integer)">>
      [] kind = "str"  -> <<"    name = db.Column(db.String(80))">>
      [] kind = "two"  -> <<"    id = db.Column(db.Integer)",
                            "    age = db.Column(db.Integer)">>
ModelProjects ==
    {AddFile(EmptyFs, AppPy,
             <<"from flask import Flask", AppLine>>
             \o (IF import THEN <<"from sqlalchemy import Integer">> ELSE <<>>)
             \o <<"class User(db.Model):">> \o ModelBody(body)) :
        import \in BOOLEAN, body \in ModelBodies}

\* a template with two blocks: none closed, or the second one closed
BlockPages ==
    {<<"{% block a %}", "A", "{% block b %}", "B">>,
     <<"{% block a %}", "A", "{% block b %}", "B", "{% endblock b %}">>}
BlockProjects ==
    {AddFile(AddFile(EmptyFs, AppPy, <<"from flask import Flask", AppLine>>),
             <<"templates", "page.html">>, page) : page \in BlockPages}

\* two handlers, the function lookup of get_routes finding a text for the first
\* one only: the route of the second has no function
MixedHandlerProjects ==
    {AddFile(AddFile(EmptyFs, AppPy,
                     <<"from flask import Flask", AppLine>>
                     \o HandlerLines("show_user", TRUE)
                     \o HandlerLines("list_all_items", FALSE)),
             <<"templates", "page.html">>, Repeat(UrlLine, refs)) :
        refs \in 1..MaxRefs}

\* application files with an instance, a factory function, both or neither, and
\* a second file with a blueprint or with another factory function
FactoryLines == <<"def create_app():", "    app = Flask(__name__)", "    return app">>
EntryKinds == {"instance", "factory", "both", "maker", "named", "neither"}
EntryLines(kind) ==
    CASE kind = "instance" -> <<AppLine>>
      [] kind = "factory"  -> FactoryLines
      [] kind = "both"     -> <<AppLine>> \o FactoryLines
      [] kind = "maker"    -> <<"def build():", "    return Flask(__name__)">>
      [] kind = "named"    -> <<"def init_app(app):", "    pass">>
      [] kind = "neither"  -> <<>>
SecondKinds == {"none", "blueprint", "factory"}
EntryProjects ==
    {LET one == AddFile(EmptyFs, AppPy, <<"from flask import Flask">> \o EntryLines(kind))
     IN  CASE second = "none" -> one
           [] second = "blueprint" ->
                  AddFile(one, <<"views.py">>,
                          <<"from flask import Blueprint", "bp = Blueprint('bp', __name__)">>)
           [] second = "factory" ->
                  AddFile(one, <<"views.py">>,
                          <<"from flask import Flask", "def make_app():",
                            "    return Flask(__name__)">>) :
        kind \in EntryKinds, second \in SecondKinds}

\* database markers in the application file and in a second file
MarkerKinds == {"none", "mysql", "mixed", "models"}
MarkerLines(kind) ==
    CASE kind = "none"   -> <<>>
      [] kind = "mysql"  -> <<"URI = 'mysql://host/data'">>
      [] kind = "mixed"  -> <<"URI = 'mongodb://host/data'", "OLD = 'postgresql://host/data'">>
      [] kind = "models" -> <<"db = SQLAlchemy(app)">>
SettingsKinds == {"absent", "plain", "sqlite", "postgresql"}
SettingsLines(kind) ==
    CASE kind = "plain"      -> <<"from flask import Flask">>
      [] kind = "sqlite"     -> <<"from flask import Flask", "URI = 'sqlite://'">>
      [] kind = "postgresql" -> <<"from flask import Config",
                                  "Config.URI = 'postgresql://host/data'">>
DatabaseProjects ==
    {LET one == AddFile(EmptyFs, AppPy,
                        <<"from flask import Flask", AppLine>> \o MarkerLines(kind))
     IN  IF second = "absent" THEN one
         ELSE AddFile(one, <<"settings.py">>, SettingsLines(second)) :
        kind \in MarkerKinds, second \in SettingsKinds}

Projects ==
    RouteProjects \cup UrlProjects \cup CodeProjects \cup SecurityProjects
    \cup DuplicateProjects \cup TemplateProjects \cup CleanProjects \cup QueryProjects
    \cup ModelProjects \cup BlockProjects \cup MixedHandlerProjects
    \cup EntryProjects \cup DatabaseProjects

(***************************************************************************)
(* One run of the tool on a project (cli._run_command / FlaskAutoHealer):   *)
(* detect, diagnose, heal, and the diagnosis of the next run.              *)
(***************************************************************************)
VARIABLES
    fs,          \* the project tree
    det,         \* the detector's file lists and database type
    issues,      \* DiagnosticEngine.issues
    fixes,       \* HealingEngine.fixes
    backup_dir,  \* HealingEngine.backup_dir
    log,         \* the file operations of the heal session, in order
    pc,          \* "detect", "diagnose", "heal", "loop", "rediagnose", "done"
    loop,        \* the repair loop heal is in (index into Loops)
    idx,         \* the number of issues the loop has gone through
    fs0,         \* the project tree when heal started
    issues2,     \* the issues the next run diagnoses
    vanished,    \* the number of files removed from outside during heal
    lines,       \* the local variable 'lines' of _heal_performance
    repeats,     \* the calls of detect() and of diagnose() after the first
    args,        \* the arguments of the command line (NoArgs: the library API)
    preset       \* PresetManager.preset (NoPreset: no preset manager, none loaded)
vars == <<fs, det, issues, fixes, backup_dir, log, pc, loop, idx, fs0, issues2,
          vanished, lines, repeats, args, preset>>

\* the categories in the order heal calls their _heal_ methods
CategoryOrder == <<"routes", "templates", "database", "code", "security", "performance">>
\* a faulty variant: the security repairs run before all the others
LoopsSecurityFirst ==
    <<[category |-> "security",    type |-> "hardcoded_secret"],
      [category |-> "security",    type |-> "insecure_config"],
      [category |-> "routes",      type |-> "missing_return"],
      [category |-> "templates",   type |-> "unclosed_block"],
      [category |-> "templates",   type |-> "invalid_url_for"],
      [category |-> "templates",   type |-> "missing_template"],
      [category |-> "database",    type |-> "user_model_without_password"],
      [category |-> "code",        type |-> "unused_import"],
      [category |-> "code",        type |-> "unused_variable"],
      [category |-> "performance", type |-> "n_plus_1_query"],
      [category |-> "performance", type |-> "missing_eager_loading"]>>
\* the 'for issue in self.issues[category]: if issue["type"] == type' loops of
\* heal, in the order they run
Loops ==
    <<[category |-> "routes",      type |-> "missing_return"],
      [category |-> "templates",   type |-> "unclosed_block"],
      [category |-> "templates",   type |-> "invalid_url_for"],
      [category |-> "templates",   type |-> "missing_template"],
      [category |-> "database",    type |-> "user_model_without_password"],
      [category |-> "code",        type |-> "unused_import"],
      [category |-> "code",        type |-> "unused_variable"],
      [category |-> "security",    type |-> "hardcoded_secret"],
      [category |-> "security",    type |-> "insecure_config"],
      [category |-> "performance", type |-> "n_plus_1_query"],
      [category |-> "performance", type |-> "missing_eager_loading"]>>

NoRepeats == [detect |-> 0, diagnose |-> 0]
\* no command line: the engines are driven through FlaskAutoHealer
NoArgs == [preset |-> None, somente_testar |-> FALSE, corrigir_tudo |-> FALSE]

Init ==
    /\ fs \in Projects
    /\ det = NewDetector
    /\ issues = NoIssues
    /\ fixes = NoFixes
    /\ backup_dir = NoDir
    /\ log = <<>>
    /\ pc = "detect"
    /\ loop = 0
    /\ idx = 0
    /\ fs0 = EmptyFs
    /\ issues2 = NoIssues
    /\ vanished = 0
    /\ lines = Unbound
    /\ repeats = NoRepeats
    /\ args = NoArgs
    /\ preset = NoPreset

\* FlaskProjectDetector(project_path).detect()
Detect ==
    /\ pc = "detect"
    /\ det' = detect(fs)
    /\ pc' = "diagnose"
    /\ UNCHANGED <<fs, issues, fixes, backup_dir, log, loop, idx, fs0, issues2, vanished,
                   lines, repeats, args, preset>>

\* DiagnosticEngine(detector).diagnose()
Diagnose ==
    /\ pc = "diagnose"
    /\ issues' = diagnose(NoIssues, det, fs)
    /\ pc' = "heal"
    /\ UNCHANGED <<fs, det, fixes, backup_dir, log, loop, idx, fs0, issues2, vanished,
                   lines, repeats, args, preset>>

\* the run ends with the report (--somente-testar, or nothing to heal)
Report ==
    /\ pc = "heal"
    /\ pc' = "done"
    /\ UNCHANGED <<fs, det, issues, fixes, backup_dir, log, loop, idx, fs0, issues2,
                   vanished, lines, repeats, args, preset>>

\* the engine state the repair operators work on
Engine ==
    [fs |-> fs, fixes |-> fixes, backup_dir |-> backup_dir, log |-> log,
     lines |-> lines]
Becomes(h) ==
    /\ fs' = h.fs
    /\ fixes' = h.fixes
    /\ backup_dir' = h.backup_dir
    /\ log' = h.log
    /\ lines' = h.lines

\* HealingEngine(detector, diagnostic).heal(create_backups): up to the first loop
StartHeal ==
    /\ pc = "heal"
    /\ \E create \in BOOLEAN :
          Becomes(IF create THEN create_backups(Engine) ELSE Engine)
    /\ fs0' = fs
    /\ pc' = "loop"
    /\ loop' = 1
    /\ idx' = 0
    /\ UNCHANGED <<det, issues, issues2, vanished,
                   repeats, args, preset>>

InLoop(type) == pc = "loop" /\ Loops[loop].type = type
Pending == issues[Loops[loop].category]
HasIssue(type) == InLoop(type) /\ idx < Len(Pending) /\ Pending[idx + 1].type = type
Issue == Pending[idx + 1]
\* a faulty variant: an issue whose repair recorded no Fix is taken up again
StepUnlessFailed ==
    /\ idx' = IF fixes' = fixes THEN idx ELSE idx + 1
    /\ UNCHANGED <<det, issues, pc, loop, fs0, issues2, vanished,
                   repeats, args, preset>>
\* one issue of the loop has been dealt with
Step ==
    /\ idx' = idx + 1
    /\ UNCHANGED <<det, issues, pc, loop, fs0, issues2, vanished,
                   repeats, args, preset>>

HealMissingReturn ==
    /\ HasIssue("missing_return")
    /\ Becomes(heal_missing_return(Engine, Issue, det))
    /\ Step
HealUnclosedBlock ==
    /\ HasIssue("unclosed_block")
    /\ Becomes(heal_unclosed_block(Engine, Issue, det))
    /\ Step
HealInvalidUrlFor ==
    /\ HasIssue("invalid_url_for")
    /\ Becomes(heal_invalid_url_for(Engine, Issue, det))
    /\ Step
HealMissingTemplate ==
    /\ HasIssue("missing_template")
    /\ Becomes(heal_missing_template(Engine, Issue, det))
    /\ Step
HealUserModelWithoutPassword ==
    /\ HasIssue("user_model_without_password")
    /\ Becomes(heal_user_model_without_password(Engine, Issue))
    /\ Step
HealUnusedImport ==
    /\ HasIssue("unused_import")
    /\ Becomes(heal_unused_import(Engine, Issue))
    /\ Step
HealUnusedVariable ==
    /\ HasIssue("unused_variable")
    /\ Becomes(heal_unused_variable(Engine, Issue))
    /\ Step
HealHardcodedSecret ==
    /\ HasIssue("hardcoded_secret")
    /\ Becomes(heal_hardcoded_secret(Engine, Issue))
    /\ Step
HealInsecureConfig ==
    /\ HasIssue("insecure_config")
    /\ Becomes(heal_insecure_config(Engine, Issue))
    /\ Step
HealNPlus1Query ==
    /\ HasIssue("n_plus_1_query")
    /\ Becomes(heal_n_plus_1_query(Engine, Issue))
    /\ Step
HealMissingEagerLoading ==
    /\ HasIssue("missing_eager_loading")
    /\ Becomes(heal_missing_eager_loading(Engine, Issue))
    /\ Step

\* an issue of another type than the loop's: the loop passes it by
SkipIssue ==
    /\ pc = "loop"
    /\ idx < Len(Pending)
    /\ Issue.type # Loops[loop].type
    /\ idx' = idx + 1
    /\ UNCHANGED <<fs, det, issues, fixes, backup_dir, log, pc, loop, fs0, issues2,
                   vanished, lines, repeats, args, preset>>

\* the loop is through: on to the next loop, and after the last one heal returns
EndLoop ==
    /\ pc = "loop"
    /\ idx = Len(Pending)
    /\ idx' = 0
    /\ IF loop < Len(Loops)
       THEN loop' = loop + 1 /\ pc' = "loop" /\ lines' = lines
       ELSE loop' = 0 /\ pc' = "rediagnose" /\ lines' = Unbound
    /\ UNCHANGED <<fs, det, issues, fixes, backup_dir, log, fs0, issues2, vanished,
                   repeats, args, preset>>

\* the next run on the healed project: a new detector and a new diagnostic engine
Rediagnose ==
    /\ pc = "rediagnose"
    /\ issues2' = diagnose(NoIssues, detect(fs), fs)
    /\ pc' = "done"
    /\ UNCHANGED <<fs, det, issues, fixes, backup_dir, log, loop, idx, fs0, vanished,
                   lines, repeats, args, preset>>

Next ==
    \/ Detect
    \/ Diagnose
    \/ Report
    \/ StartHeal
    \/ HealMissingReturn
    \/ HealUnclosedBlock
    \/ HealInvalidUrlFor
    \/ HealMissingTemplate
    \/ HealUserModelWithoutPassword
    \/ HealUnusedImport
    \/ HealUnusedVariable
    \/ HealHardcodedSecret
    \/ HealInsecureConfig
    \/ HealNPlus1Query
    \/ HealMissingEagerLoading
    \/ SkipIssue
    \/ EndLoop
    \/ Rediagnose

Spec == Init /\ [][Next]_vars

(***************************************************************************)
(* The same run in an environment that may remove project files while heal *)
(* is between two repairs (another process, the user).                     *)
(***************************************************************************)
MaxVanish == 1
\* the files of the project proper: everything outside the backups directory
ProjectFiles(tree) == {p \in DOMAIN tree.files : p[1] # BackupRoot[1]}
Vanish ==
    /\ pc = "loop"
    /\ vanished < MaxVanish
    /\ \E p \in ProjectFiles(fs) : fs' = RemoveFile(fs, p)
    /\ vanished' = vanished + 1
    /\ UNCHANGED <<det, issues, fixes, backup_dir, log, pc, loop, idx, fs0, issues2,
                   lines, repeats, args, preset>>

NextEnv ==
    \/ Next
    \/ Vanish

SpecEnv == Init /\ [][NextEnv]_vars

(***************************************************************************)
(* A session of a caller that holds on to its detector and its diagnostic  *)
(* engine and calls detect() or diagnose() on them again, and does not     *)
(* heal.                                                                   *)
(***************************************************************************)
MaxRepeats == 1
\* detector.detect() on the detector that has detected before
DetectAgain ==
    /\ pc = "diagnose"
    /\ repeats.detect < MaxRepeats
    /\ det' = detect_again(det, fs)
    /\ repeats' = [repeats EXCEPT !.detect = @ + 1]
    /\ UNCHANGED <<fs, issues, fixes, backup_dir, log, pc, loop, idx, fs0, issues2,
                   vanished, lines, args, preset>>

\* diagnostic.diagnose() on the engine that has diagnosed before
DiagnoseAgain ==
    /\ pc = "heal"
    /\ repeats.diagnose < MaxRepeats
    /\ issues' = diagnose(issues, det, fs)
    /\ repeats' = [repeats EXCEPT !.diagnose = @ + 1]
    /\ UNCHANGED <<fs, det, fixes, backup_dir, log, pc, loop, idx, fs0, issues2,
                   vanished, lines, args, preset>>

NextAgain ==
    \/ Detect
    \/ DetectAgain
    \/ Diagnose
    \/ DiagnoseAgain
    \/ Report

SpecAgain == Init /\ [][NextAgain]_vars

(***************************************************************************)
(* The run command of the command line (FlaskAutoHealerCLI._run_command).  *)
(***************************************************************************)
\* --preset, --somente-testar, --corrigir-tudo
CliArgs ==
    [preset : {None, "blog"}, somente_testar : BOOLEAN, corrigir_tudo : BOOLEAN]
InitCli ==
    /\ fs \in Projects
    /\ det = NewDetector
    /\ issues = NoIssues
    /\ fixes = NoFixes
    /\ backup_dir = NoDir
    /\ log = <<>>
    /\ pc = "detect"
    /\ loop = 0
    /\ idx = 0
    /\ fs0 = EmptyFs
    /\ issues2 = NoIssues
    /\ vanished = 0
    /\ lines = Unbound
    /\ repeats = NoRepeats
    /\ args \in CliArgs
    /\ preset = NoPreset

\* 'if self.args.preset:' the preset is loaded; then the diagnosis
CliDiagnose ==
    /\ pc = "diagnose"
    /\ preset' = IF args.preset # None THEN load_preset(args.preset) ELSE preset
    /\ issues' = diagnose(NoIssues, det, fs)
    /\ pc' = "heal"
    /\ UNCHANGED <<fs, det, fixes, backup_dir, log, loop, idx, fs0, issues2, vanished,
                   lines, repeats, args>>

total_issues == Len(Flatten([c \in 1..Len(CategoryOrder) |-> issues[CategoryOrder[c]]]))
\* a faulty variant: --somente-testar is not looked at
ShouldHealEvenIfTestOnly == args.corrigir_tudo \/ total_issues > 0
\* 'if not self.args.somente_testar and (self.args.corrigir_tudo or total_issues > 0)'
ShouldHeal == ~args.somente_testar /\ (args.corrigir_tudo \/ total_issues > 0)

\* HealingEngine(detector, diagnostic).heal(): up to the first loop
CliHeal ==
    /\ pc = "heal"
    /\ ShouldHeal
    /\ Becomes(create_backups(Engine))
    /\ fs0' = fs
    /\ pc' = "loop"
    /\ loop' = 1
    /\ idx' = 0
    /\ UNCHANGED <<det, issues, issues2, vanished, repeats, args, preset>>

\* no heal: the command goes on to its reports and returns
CliReport ==
    /\ pc = "heal"
    /\ ~ShouldHeal
    /\ pc' = "done"
    /\ UNCHANGED <<fs, det, issues, fixes, backup_dir, log, loop, idx, fs0, issues2,
                   vanished, lines, repeats, args, preset>>

\* heal has returned: the command goes on to its reports and returns
CliReturn ==
    /\ pc = "rediagnose"
    /\ pc' = "done"
    /\ UNCHANGED <<fs, det, issues, fixes, backup_dir, log, loop, idx, fs0, issues2,
                   vanished, lines, repeats, args, preset>>

NextCli ==
    \/ Detect
    \/ CliDiagnose
    \/ CliHeal
    \/ CliReport
    \/ HealMissingReturn
    \/ HealUnclosedBlock
    \/ HealInvalidUrlFor
    \/ HealMissingTemplate
    \/ HealUserModelWithoutPassword
    \/ HealUnusedImport
    \/ HealUnusedVariable
    \/ HealHardcodedSecret
    \/ HealInsecureConfig
    \/ HealNPlus1Query
    \/ HealMissingEagerLoading
    \/ SkipIssue
    \/ EndLoop
    \/ CliReturn

SpecCli == InitCli /\ [][NextCli]_vars

(***************************************************************************)
(* Properties of a run.                                                    *)
(***************************************************************************)
\* heal has returned (it has gone through every loop)
HealReturned == pc \in {"rediagnose", "done"} /\ fs0 # EmptyFs
\* the text of every file of the project proper
ProjectContent(tree) == [p \in ProjectFiles(tree) |-> tree.files[p]]
\* the elements of seq the test accepts, counted
HowMany(seq, Test(_)) == Len(SelectSeq(seq, Test))
\* the files the session has overwritten, by its log
Written == {log[i].file : i \in {j \in 1..Len(log) : log[j].op = "write"}}

\* C1: when heal has returned, every file it has overwritten has a copy under
\* the session's backup root, and the copy holds the text the file had when
\* heal started (its content before the first modification of the session).
C1_BackupIsOriginal ==
    HealReturned =>
        \A p \in Written \cap DOMAIN fs0.files :
            /\ IsFile(fs, backup_dir \o p)
            /\ fs.files[backup_dir \o p] = fs0.files[p]

\* every overwrite of a file comes after a completed backup copy of that file
BackupPrecedesWrite ==
    \A i \in 1..Len(log) :
        log[i].op = "write" =>
            \E j \in 1..(i - 1) : log[j] = [op |-> "backup", file |-> log[i].file]
\* a step in which a backup copy fails writes no project file and records no Fix
FailedBackupSkipsRepair ==
    (\E i \in (Len(log) + 1)..Len(log') : log'[i].op = "backup_failed")
        => /\ fixes' = fixes
           /\ ProjectContent(fs') = ProjectContent(fs)
           /\ \A i \in (Len(log) + 1)..Len(log') : log'[i].op = "backup_failed"
\* C2: in a heal session, also one in which files vanish between repairs, each
\* overwrite of an existing file is preceded by a completed backup copy of that
\* file, and a repair whose backup step raises writes nothing and records no Fix.
C2_BackupPrecedesWrite ==
    []BackupPrecedesWrite /\ [][FailedBackupSkipsRepair]_vars
\* a session in which one backup failed and another repair overwrote a file
C2_Witness ==
    /\ \E i \in 1..Len(log) : log[i].op = "backup_failed"
    /\ \E i \in 1..Len(log) : log[i].op = "write"

\* C3: a Fix is recorded only by a step that changed the text of the project:
\* a repair that finds nothing left to change leaves the files as they are and
\* records no Fix.
C3_FixMeansChange ==
    [][fixes' # fixes => ProjectContent(fs') # ProjectContent(fs)]_vars

\* the issue type each repair answers, and the Fix type it records
RepairTypes ==
    <<[category |-> "routes",    issue |-> "missing_return",   fix |-> "added_return"],
      [category |-> "templates", issue |-> "unclosed_block",   fix |-> "closed_block"],
      [category |-> "templates", issue |-> "invalid_url_for",  fix |-> "fixed_url_for"],
      [category |-> "code",      issue |-> "unused_import",    fix |-> "removed_unused_import"],
      [category |-> "code",      issue |-> "unused_variable",  fix |-> "removed_unused_variable"],
      [category |-> "security",  issue |-> "hardcoded_secret", fix |-> "fixed_hardcoded_secret"],
      [category |-> "security",  issue |-> "insecure_config",  fix |-> "fixed_insecure_config"]>>
\* the file or template an Issue or a Fix names
Entity(r) == IF "file" \in DOMAIN r THEN r.file ELSE r.template
\* C4: for every repair type other than template creation there are never more
\* Fixes of its type than diagnosed Issues of the matching type, and every Fix
\* names a file or template that an Issue of the matching type names.
C4_FixesWithinIssues ==
    \A k \in 1..Len(RepairTypes) :
        LET r     == RepairTypes[k]
            fixed == SelectSeq(fixes[r.category], LAMBDA f : f.type = r.fix)
            found == SelectSeq(issues[r.category], LAMBDA i : i.type = r.issue)
        IN  /\ Len(fixed) <= Len(found)
            /\ \A f \in 1..Len(fixed) :
                   \E i \in 1..Len(found) : Entity(found[i]) = Entity(fixed[f])

\* C5: when the missing_return repairs are through, a diagnosis of the patched
\* files reports no missing_return issue for a function that an added_return
\* Fix names.
C5_RepairedReturnStaysRepaired ==
    (pc = "loop" /\ loop = 2 /\ idx = 0) =>
        LET again == missing_return_issues(detect(fs), fs)
        IN  \A k \in 1..Len(fixes.routes) :
                \A i \in 1..Len(again) :
                    ~ /\ again[i].file = fixes.routes[k].file
                      /\ again[i].function = fixes.routes[k].function

\* the project whose only defect is the route function 'def show(): pass'
ShowApp == RouteHeaders[1] \o RouteFunction("show", 0)
IsShowProject(tree) == DOMAIN tree.files = {AppPy} /\ tree.files[AppPy] = ShowApp
\* C6: on that project diagnose reports one missing_return issue and nothing
\* else; heal records one added_return Fix; afterwards the file parses, show
\* returns, the return renders a template whose path ends in show.html, and a
\* file exists at that template path.
C6_ShowScenario ==
    /\ (pc = "heal" /\ IsShowProject(fs)) =>
           /\ \A c \in DOMAIN issues : c # "routes" => issues[c] = <<>>
           /\ Len(issues.routes) = 1
           /\ issues.routes[1].type = "missing_return"
           /\ issues.routes[1].function = "show"
    /\ (HealReturned /\ IsShowProject(fs0)) =>
           /\ Len(fixes.routes) = 1
           /\ fixes.routes[1].type = "added_return"
           /\ EndsWith(fixes.routes[1].template, "show.html")
           /\ \E i \in 1..Len(fs.files[AppPy]) :
                  Strip(fs.files[AppPy][i])
                      = "return render_template('" \o fixes.routes[1].template \o "')"
           /\ LET tree == Parse(fs.files[AppPy])
              IN  /\ tree.ok
                  /\ \E n \in 1..Len(tree.funcs) :
                         tree.funcs[n].name = "show" /\ tree.funcs[n].ret
           /\ \E p \in ProjectFiles(fs) :
                  EndsWith(PathStr(p), fixes.routes[1].template)

SecretLiteral == "abcdef1234567890"
HoldsSecret(tree, p) == \E i \in 1..Len(tree.files[p]) : tree.files[p][i] = SecretLine
\* C7: a file that holds SECRET_KEY = "abcdef1234567890" gets one
\* hardcoded_secret issue of severity high, and after heal it assigns SECRET_KEY
\* from the environment, holds the literal no more, and imports os.
C7_SecretScenario ==
    /\ pc = "heal" =>
           \A p \in ProjectFiles(fs) :
               HoldsSecret(fs, p) =>
                   HowMany(issues.security,
                           LAMBDA i : /\ i.type = "hardcoded_secret"
                                      /\ i.file = p
                                      /\ i.severity = "high") = 1
    /\ HealReturned =>
           \A p \in ProjectFiles(fs0) :
               HoldsSecret(fs0, p) =>
                   /\ IsFile(fs, p)
                   /\ \E i \in 1..Len(fs.files[p]) :
                          StartsWith(fs.files[p][i],
                                     "SECRET_KEY = os.environ.get('SECRET_KEY', ")
                   /\ ~InContent(fs.files[p], SecretLiteral)
                   /\ \E i \in 1..Len(fs.files[p]) : Strip(fs.files[p][i]) = "import os"

PagePath == <<"templates", "page.html">>
\* the project whose only route handler is show_user and whose page refers to
\* the endpoint show_usr
IsUrlProject(tree) ==
    /\ DOMAIN tree.files = {AppPy, PagePath}
    /\ tree.files[AppPy] = <<"from flask import Flask", AppLine>>
                           \o HandlerLines("show_user", FALSE)
    /\ InContent(tree.files[PagePath], "url_for('show_usr')")
\* C8: on that project heal rewrites every url_for('show_usr') of the page to
\* url_for('show_user') and records a fixed_url_for Fix.
C8_UrlScenario ==
    (HealReturned /\ IsUrlProject(fs0)) =>
        /\ InContent(fs.files[PagePath], "url_for('show_user')")
        /\ ~InContent(fs.files[PagePath], "url_for('show_usr')")
        /\ \E k \in 1..Len(fixes.templates) : fixes.templates[k].type = "fixed_url_for"

\* the endpoints of the project, and those of them as similar to a word as the
\* cutoff asks
Candidates(tree) == endpoints_of(get_routes(det, tree))
CloseTo(word, cands) ==
    {i \in 1..Len(cands) :
        /\ cands[i] # None
        /\ ratio_at_least(cands[i], word, cutoff_num, cutoff_den)}
\* the invalid_url_for repair of one issue leaves the project text and the
\* Fixes as they are unless an endpoint reaches the cutoff
CutoffGuardsRewrite ==
    (HasIssue("invalid_url_for") /\ idx' = idx + 1
         /\ CloseTo(Issue.endpoint, Candidates(fs)) = {})
        => fixes' = fixes /\ ProjectContent(fs') = ProjectContent(fs)
\* an invalid_url_for issue for which no endpoint reaches the cutoff is
\* diagnosed again after heal
IssuePersists ==
    (HealReturned /\ pc = "done") =>
        \A i \in 1..Len(issues.templates) :
            (/\ issues.templates[i].type = "invalid_url_for"
             /\ CloseTo(issues.templates[i].endpoint, Candidates(fs0)) = {})
                => \E j \in 1..Len(issues2.templates) :
                       /\ issues2.templates[j].type = "invalid_url_for"
                       /\ issues2.templates[j].template = issues.templates[i].template
                       /\ issues2.templates[j].endpoint = issues.templates[i].endpoint
\* C9: the invalid_url_for repair rewrites only when an endpoint's similarity
\* reaches the cutoff; otherwise the template is unchanged, no fixed_url_for
\* Fix is recorded, and the next diagnosis reports the issue again.
C9_CutoffGuardsRewrite ==
    []IssuePersists /\ [][CutoffGuardsRewrite]_vars
\* heal is through on a project with endpoints, none of them close to the
\* endpoint a page refers to: no Fix, and the issue is diagnosed again
C9_Witness ==
    /\ HealReturned /\ pc = "done"
    /\ fixes.templates = <<>>
    /\ \E i \in 1..Len(issues.templates) :
           /\ issues.templates[i].type = "invalid_url_for"
           /\ \E c \in 1..Len(Candidates(fs0)) : Candidates(fs0)[c] # None
           /\ CloseTo(issues.templates[i].endpoint, Candidates(fs0)) = {}
           /\ \E j \in 1..Len(issues2.templates) :
                  /\ issues2.templates[j].type = "invalid_url_for"
                  /\ issues2.templates[j].endpoint = issues.templates[i].endpoint

\* C10: a path that the extracted routes hold k + 1 times gets k
\* duplicate_route issues, one for each occurrence after the first, in
\* extraction order.
C10_DuplicateCount ==
    pc = "heal" =>
        LET routes == get_routes(det, fs)
            dups   == SelectSeq(issues.routes, LAMBDA i : i.type = "duplicate_route")
        IN  \A r \in 1..Len(routes) :
                LET occ == SelectSeq(routes, LAMBDA x : x.path = routes[r].path)
                    rep == SelectSeq(dups, LAMBDA x : x.path = routes[r].path)
                IN  /\ Len(rep) = Len(occ) - 1
                    /\ \A k \in 1..Len(rep) :
                           /\ rep[k].file = occ[k + 1].file
                           /\ rep[k].function = occ[k + 1].function
\* a diagnosis with two duplicate_route issues, one of them in a second file
C10_Witness ==
    /\ pc = "heal"
    /\ HowMany(issues.routes, LAMBDA i : i.type = "duplicate_route") >= 2
    /\ \E i \in 1..Len(issues.routes) :
           issues.routes[i].type = "duplicate_route" /\ issues.routes[i].file # AppPy

\* the lists of files and directories a detector holds
FileSets ==
    {"app_files", "blueprint_files", "template_dirs", "static_dirs",
     "model_files", "route_files", "config_files"}
NoDuplicates(seq) == \A i, j \in 1..Len(seq) : seq[i] = seq[j] => i = j
\* what a detector has found is what a new detector finds on the tree, and no
\* list names a file twice
DetectedOnce ==
    pc = "diagnose" =>
        /\ \A l \in FileSets : NoDuplicates(det[l])
        /\ det = detect(fs)
\* C11: detect is idempotent: what the detector holds after detect() is what a
\* new detector finds on the unchanged tree, no list names an entry twice, and
\* a second detect() on the same detector leaves the model as it was.
C11_DetectIdempotent ==
    []DetectedOnce /\ [][repeats'.detect > repeats.detect => det' = det]_vars

Categories == {"routes", "templates", "database", "code", "security", "performance"}
\* the Fixes are grouped by the six categories
FixesByCategory == DOMAIN fixes = Categories
\* a step of heal goes through one issue of the loop it is in, whatever became
\* of the repair, or ends a loop that is through; it never goes back
OneIssueAtATime ==
    (pc = "loop" /\ vanished' = vanished) =>
        \/ /\ idx < Len(Pending)
           /\ idx' = idx + 1 /\ loop' = loop /\ pc' = "loop"
        \/ /\ idx = Len(Pending)
           /\ idx' = 0
           /\ \/ loop < Len(Loops) /\ loop' = loop + 1 /\ pc' = "loop"
              \/ loop = Len(Loops) /\ pc' = "rediagnose"
\* the issue types that have a repair
RepairedTypes ==
    {"missing_return", "unclosed_block", "invalid_url_for", "missing_template",
     "user_model_without_password", "unused_import", "unused_variable", "hardcoded_secret", "insecure_config",
     "n_plus_1_query", "missing_eager_loading"}
\* heal is never stuck: whatever the repairs before have left behind, there is
\* a step for the issue that is next, or the loop is through and ends
HealGoesOn ==
    pc = "loop" =>
        \/ idx = Len(Pending)
        \/ /\ idx < Len(Pending)
           /\ \/ Issue.type # Loops[loop].type
              \/ \E t \in RepairedTypes : HasIssue(t)
\* C12: every issue is gone through once and in turn, a repair that fails (the
\* file has vanished, the text no longer parses or matches) is skipped and the
\* next issue taken up, and heal comes to its end (each step moves on in the
\* finite lists and none is stuck), its Fixes grouped by the six categories.
C12_EveryRepairAttemptedOnce ==
    /\ [](FixesByCategory /\ HealGoesOn)
    /\ [][OneIssueAtATime]_vars
\* heal has returned from a session in which a missing_return repair failed
\* (it recorded no Fix) and a repair of the code category, which comes later,
\* went through
C12_Witness ==
    /\ HealReturned
    /\ HowMany(issues.routes, LAMBDA i : i.type = "missing_return") > Len(fixes.routes)
    /\ fixes.code # <<>>

\* C13: every overwrite of a file is computed from the text read after all
\* earlier writes of the session to that file.  A repair reads its file right
\* after the backup copy, so between that copy and the overwrite there is no
\* other overwrite of the file.
C13_WritesFromFreshRead ==
    \A i \in 1..Len(log) :
        log[i].op = "write" =>
            \E j \in 1..(i - 1) :
                /\ log[j] = [op |-> "backup", file |-> log[i].file]
                /\ \A k \in (j + 1)..(i - 1) :
                       ~(log[k].op = "write" /\ log[k].file = log[i].file)

Rank(category) == CHOOSE r \in 1..Len(CategoryOrder) : CategoryOrder[r] = category
\* the Fix is the record of a repair of its own category (a created_template Fix
\* is recorded under templates by _create_template, which the missing_return
\* repair of the routes category calls as well)
OwnFix(fix) == fix.type # "created_template"
\* a step of heal records no Fix in a category earlier than the one of its loop,
\* and none in a category once a later category holds a Fix of its own
RepairsInCategoryOrder ==
    \A c \in Categories :
        fixes'[c] # fixes[c] =>
            /\ pc = "loop" /\ Rank(c) >= Rank(Loops[loop].category)
            /\ \A d \in Categories :
                  Rank(d) > Rank(c) => \A i \in 1..Len(fixes[d]) : ~OwnFix(fixes[d][i])
\* heal leaves a loop only when the loop is through its list, for the next loop,
\* whose category is the same or the next one of the order; inside a loop the
\* issues are taken one after the other, from the first of the list
LoopsInOrder ==
    pc = "loop" =>
        \/ /\ pc' = "loop" /\ loop' = loop /\ idx < Len(Pending) /\ idx' = idx + 1
        \/ /\ idx = Len(Pending) /\ idx' = 0
           /\ \/ /\ pc' = "loop" /\ loop' = loop + 1
                 /\ Rank(Loops[loop'].category) - Rank(Loops[loop].category) \in {0, 1}
              \/ /\ pc' = "rediagnose" /\ loop = Len(Loops)
                 /\ Loops[loop].category = CategoryOrder[Len(CategoryOrder)]
\* heal starts with the first category of the order
StartsWithFirst ==
    (pc = "heal" /\ pc' = "loop") =>
        loop' = 1 /\ idx' = 0 /\ Loops[1].category = CategoryOrder[1]

C15_PresetFindingsReturned ==
    (pc = "heal" /\ args.preset # None) =>
        issues = apply_preset_rules(load_preset(args.preset),
                                    diagnose(NoIssues, det, fs), det, fs)

\* the unused_import loop of heal has just ended, and no earlier loop has
\* repaired anything: the files were those of fs0 when the loop began
UnusedImportsHealed ==
    /\ pc = "loop" /\ Loops[loop].type = "unused_variable" /\ idx = 0
    /\ fixes.routes = <<>> /\ fixes.templates = <<>> /\ fixes.database = <<>>
\* the names diagnosed as unused imports on line number n of the file
UnusedOn(file, n) ==
    LET found == SelectSeq(issues.code, LAMBDA i : /\ i.type = "unused_import"
                                                   /\ i.file = file /\ i.line = n)
    IN  [i \in 1..Len(found) |-> found[i].import]
\* an import line without the names: no line when no name remains
RECURSIVE WithoutNames(_, _)
WithoutNames(line, names) ==
    IF names = <<>> THEN <<line>>
    ELSE LET rest == without_import(<<line>>, 0, line, Head(names),
                                    Split(line, "import "))
         IN  IF rest = <<>> THEN <<>> ELSE WithoutNames(rest[1], Tail(names))
\* the file without the unused names diagnosed in it, every other line as it was
WithoutUnusedImports(file, text) ==
    Flatten([n \in 1..Len(text) |-> WithoutNames(text[n], UnusedOn(file, n))])

\* C16: when heal has gone through the unused_import issues, every file holds
\* its text of before without the diagnosed unused names: an import line of one
\* name is gone, an import line of several names has lost the unused ones, and
\* every other line is unchanged, also with unused imports on several lines.
C16_OnlyUnusedImportsRemoved ==
    UnusedImportsHealed =>
        \A file \in ProjectFiles(fs0) :
            IsFile(fs, file) /\ ReadLines(fs, file) = WithoutUnusedImports(file, fs0.files[file])

\* heal is about to repair an n_plus_1_query or a missing_eager_loading issue
PerformanceRepair ==
    /\ pc = "loop" /\ Loops[loop].category = "performance"
    /\ idx < Len(Pending) /\ Issue.type = Loops[loop].type
\* the line as it was, or the line followed by an inline comment
Commented(old, new) ==
    \/ new = old
    \/ Len(new) > Len(old) /\ StartsWith(new, old \o " #")
\* every file of the project proper keeps its lines, a comment appended at most
AdvisoryOnly ==
    \A file \in ProjectFiles(fs) :
        /\ IsFile(fs', file)
        /\ Len(ReadLines(fs', file)) = Len(ReadLines(fs, file))
        /\ \A n \in 1..Len(ReadLines(fs, file)) :
               Commented(ReadLines(fs, file)[n], ReadLines(fs', file)[n])

\* C17: a repair of an n_plus_1_query or of a missing_eager_loading issue leaves
\* every file with the same number of lines, each line its text of before or
\* that text followed by an inline comment; no line is removed, reordered or
\* emptied, whether or not the query pattern of the repair matches in the file.
C17_PerformanceRepairsAdvisoryOnly == [][PerformanceRepair => AdvisoryOnly]_vars

\* the issues the engine holds are those of the tree as it is
DiagnosedFresh ==
    (pc = "heal" /\ repeats.detect = 0) => issues = diagnose(NoIssues, det, fs)
\* C18: the lists a diagnose call returns hold the issues of the current tree
\* only: a second diagnose call on the same engine over the unchanged tree
\* returns lists equal to those of the first, and no diagnose call changes a
\* file.
C18_DiagnoseFresh ==
    /\ []DiagnosedFresh
    /\ [][repeats'.diagnose > repeats.diagnose => issues' = issues]_vars
    /\ [][(pc' = "heal" /\ issues' # issues) => fs' = fs]_vars

\* heal is under way and was called with create_backups=False (create_backups()
\* would have set backup_dir), and nothing has made a backup directory since
HealingWithoutBackups == pc = "loop" /\ backup_dir = NoDir
\* neither a backup directory nor a backup copy
NoBackups(tree, dir, ops) ==
    /\ dir = NoDir
    /\ ~Exists(tree, BackupRoot)
    /\ \A i \in 1..Len(ops) : ops[i].op # "backup"
\* C19: in a heal session called with create_backups=False no backup directory
\* is created and no backup copy is written: a step of such a session that
\* begins without backups ends without backups.
C19_NoBackupsWhenDisabled ==
    [][HealingWithoutBackups => NoBackups(fs', backup_dir', log')]_vars

\* nothing of a heal session: no file changed or made, no backup directory
Untouched ==
    /\ fs0 = EmptyFs /\ pc # "loop"
    /\ backup_dir = NoDir /\ ~Exists(fs, <<BackupRoot[1]>>)
    /\ log = <<>> /\ fixes = NoFixes
ReturnAdded ==
    /\ HasIssue("missing_return")
    /\ Len(fixes'.routes) > Len(fixes.routes)
\* the function of that name ends, in the text, with a return of a rendered
\* template as the last line of its body, one level deeper than its def line
ReturnIsLastStatement(text, function) ==
    LET tree  == Parse(text)
        nodes == SelectSeq(WalkOrder(tree.funcs), LAMBDA n : n.name = function)
        node  == nodes[1]
    IN  /\ tree.ok
        /\ nodes # <<>>
        /\ node.end > node.lineno
        /\ StartsWith(Strip(text[node.end]), "return render_template(")
        /\ LeadingSpace(text[node.end]) = LeadingSpace(text[node.lineno]) \o "    "

\* C21: a missing_return repair that records its Fix leaves the file with the
\* synthesized 'return render_template(...)' line as the last statement of the
\* body of the diagnosed function, one level deeper than the def line, whether
\* the import was added to an existing line or inserted as a new line.
C21_ReturnInsideFunction ==
    [][ReturnAdded =>
           /\ IsFile(fs', Issue.file)
           /\ ReturnIsLastStatement(ReadLines(fs', Issue.file), Issue.function)]_vars


\* the user_model_without_password repair of the issue at hand has written the
\* field and recorded its Fix
PasswordFieldAdded ==
    /\ HasIssue("user_model_without_password")
    /\ Len(fixes'.database) > Len(fixes.database)
\* the text parses, and in the class of the model the declaration of the
\* password-hash field comes right after the last column declaration, or is
\* the first line of the body when the class declares no column
FieldAfterLastColumn(text, model) ==
    LET tree  == Parse(text)
        nodes == SelectSeq(WalkOrder(ClassNodes(tree, text)), LAMBDA n : n.name = model)
        node  == nodes[1]
        cols  == {i \in (node.lineno + 1)..node.end :
                     /\ StmtKind(text[i]) = "assign"
                     /\ _is_column_definition(Tokens(text[i]))}
        at    == IF cols = {} THEN node.lineno + 1 ELSE MaxOf(cols) + 1
    IN  /\ tree.ok /\ nodes # <<>>
        /\ at <= node.end
        /\ text[at] = password_field(LeadingSpace(text[node.lineno]) \o "    ")
StillWithoutPassword(tree, file, model) ==
    \E i \in Range(diagnose(NoIssues, detect(tree), tree).database) :
        /\ i.type = "user_model_without_password"
        /\ i.file = file
        /\ i.model = model
\* C22: when the user_model_without_password repair has added the field, the
\* field declaration is inside the body of the diagnosed class, right after its
\* last column declaration (the first body line when there is none), also when
\* an import line was inserted above the class, and a diagnose of the project
\* as it is then no longer reports user_model_without_password for the model.
C22_PasswordFieldInsideClass ==
    [][PasswordFieldAdded =>
           /\ IsFile(fs', Issue.file)
           /\ FieldAfterLastColumn(ReadLines(fs', Issue.file), Issue.model)
           /\ ~StillWithoutPassword(fs', Issue.file, Issue.model)]_vars

\* the write operations the step adds to the log
NewWrites == SelectSeq(SubSeq(log', Len(log) + 1, Len(log')), LAMBDA o : o.op = "write")
\* new is old without one line, and that line is the text given
OneLineRemoved(old, new, text) ==
    \E k \in 1..Len(old) : old[k] = text /\ new = Pop(old, k - 1)
\* C23: the repair of one unused_variable issue writes the file at most once,
\* and when it writes, the file is what it was without one line, the assignment
\* the issue was diagnosed on (line issue.line of the text diagnosed), also when
\* the variable is assigned more than once in the file.
C23_OneAssignmentRemoved ==
    [][HasIssue("unused_variable") =>
           /\ Len(NewWrites) <= 1
           /\ NewWrites # <<>> =>
                  /\ ProjectFiles(fs') = ProjectFiles(fs)
                  /\ \A f \in ProjectFiles(fs) \ {Issue.file} :
                         fs'.files[f] = fs.files[f]
                  /\ OneLineRemoved(ReadLines(fs, Issue.file),
                                    ReadLines(fs', Issue.file),
                                    ReadLines(fs0, Issue.file)[Issue.line])]_vars

\* the unclosed_block repair of the issue at hand has written the template and
\* recorded its Fix
BlockClosed ==
    /\ HasIssue("unclosed_block")
    /\ Len(fixes'.templates) > Len(fixes.templates)
\* new is old with the closing tag put in front of the first opening block tag
\* after the opening tag of the block, or at the end when there is none (the
\* tag on a line of its own or not)
ClosedBeforeNextBlock(old, new, name) ==
    LET tag     == "{% endblock " \o name \o " %}"
        opening == BlockSearch(old, 1, name)
        next    == BlockSearch(old, opening.end, "")
    IN  /\ opening.start > 0
        /\ IF next.start > 0
           THEN \E sep \in {"", "\n"} :
                    new = SubSeq(old, 1, next.start - 1) \o tag \o sep
                          \o From(old, next.start)
           ELSE \E sep \in {"", "\n"} : new = old \o sep \o tag
StillUnclosed(tree, template, name) ==
    \E i \in Range(diagnose(NoIssues, detect(tree), tree).templates) :
        /\ i.type = "unclosed_block"
        /\ i.template = template
        /\ i.block = name
\* C24: when the unclosed_block repair has closed a block, the template is what
\* it was with one closing tag of the block put in right before the next
\* opening block tag after the block's opening tag (at the end of the file when
\* none follows), no other file of the project is changed, and a diagnose of
\* the project as it is then reports no unclosed_block for that block.
C24_BlockClosedBeforeNext ==
    [][BlockClosed =>
           LET path == template_path_of(det, fs, Issue.template)
           IN  /\ IsFile(fs', path)
               /\ ClosedBeforeNextBlock(Content(ReadLines(fs, path)),
                                        Content(ReadLines(fs', path)), Issue.block)
               /\ \A f \in ProjectFiles(fs) \ {path} :
                      IsFile(fs', f) /\ fs'.files[f] = fs.files[f]
               /\ ~StillUnclosed(fs', Issue.template, Issue.block)]_vars
\* the same without the diagnose that follows: the edit of the template alone
BlockClosedInPlace ==
    [][BlockClosed =>
           LET path == template_path_of(det, fs, Issue.template)
           IN  /\ IsFile(fs', path)
               /\ ClosedBeforeNextBlock(Content(ReadLines(fs, path)),
                                        Content(ReadLines(fs', path)), Issue.block)
               /\ \A f \in ProjectFiles(fs) \ {path} :
                      IsFile(fs', f) /\ fs'.files[f] = fs.files[f]]_vars

\* a repair that goes through _ensure_template_exists takes its step
ScaffoldStep == HasIssue("missing_return") \/ HasIssue("missing_template")
\* the created_template Fixes the step records
NewTemplateFixes ==
    SelectSeq(SubSeq(fixes'.templates, Len(fixes.templates) + 1, Len(fixes'.templates)),
              LAMBDA f : f.type = "created_template")
\* the files the step adds to the project
CreatedFiles == ProjectFiles(fs') \ ProjectFiles(fs)
\* C25: a step that may create a template scaffold leaves every file the
\* project held as it was (but for the route file a missing_return repair
\* edits), so it writes a template only where none was; it records one
\* created_template Fix for the template it has created, none when it has
\* created none, and creates none when no template directory is known.
C25_ScaffoldOnlyWhenAbsent ==
    [][ScaffoldStep =>
           /\ \A f \in ProjectFiles(fs) :
                  (HasIssue("missing_return") => f # Issue.file)
                      => (IsFile(fs', f) /\ fs'.files[f] = fs.files[f])
           /\ Cardinality(CreatedFiles) <= 1
           /\ Len(NewTemplateFixes) = Cardinality(CreatedFiles)
           /\ \A i \in 1..Len(NewTemplateFixes) : NewTemplateFixes[i].path \in CreatedFiles
           /\ det.template_dirs = <<>> => CreatedFiles = {}]_vars
\* heal has returned from a session with two missing_return repairs that went
\* through and one template created: the second repair found the template of
\* the first in place
C25_Witness ==
    /\ HealReturned
    /\ HowMany(fixes.routes, LAMBDA f : f.type = "added_return") >= 2
    /\ HowMany(fixes.templates, LAMBDA f : f.type = "created_template") = 1

\* the name of the function defined on the line after line i, None when that
\* line is no 'def name'
DefNameAfter(text, i) ==
    LET toks == IF i < Len(text) THEN Tokens(text[i + 1]) ELSE <<>>
    IN  IF IsTok(toks, 1, "id", "def") /\ IsId(toks, 2) /\ Indent(text[i + 1]) = 0
        THEN toks[2].t ELSE None
\* the route decorators get_routes finds in the text, each with its line and
\* the handler get_routes records for it
DecoratorsIn(text) ==
    {[line |-> i, function |-> FunctionMatch(text, m.text)] :
        <<i, m>> \in UNION {{i} \X ({DecoratorMatch(text[i], j, RouteAttrs, TRUE) :
                                         j \in 1..Len(text[i])}
                                    \cup {DecoratorMatch(text[i], j, VerbAttrs, FALSE) :
                                              j \in 1..Len(text[i])}) :
                             i \in 1..Len(text)}
        \ {x \in UNION {{i} \X ({DecoratorMatch(text[i], j, RouteAttrs, TRUE) :
                                     j \in 1..Len(text[i])}
                                \cup {DecoratorMatch(text[i], j, VerbAttrs, FALSE) :
                                          j \in 1..Len(text[i])}) :
                         i \in 1..Len(text)} : ~x[2].ok}}
\* C26: for every route decorator get_routes matches in a route file, the
\* handler it records is the name of the function defined on the next line when
\* there is one, and it is null only when no definition follows the decorator.
C26_HandlerIsFollowingFunction ==
    pc # "detect" =>
        \A f \in Range(det.route_files) :
            IsFile(fs, f) =>
                \A r \in DecoratorsIn(ReadLines(fs, f)) :
                    /\ DefNameAfter(ReadLines(fs, f), r.line) # None
                           => r.function = DefNameAfter(ReadLines(fs, f), r.line)
                    /\ r.function = None
                           => DefNameAfter(ReadLines(fs, f), r.line) = None

\* the routes with a function, of those get_routes returns
NamedRoutes(routes) == SelectSeq(routes, LAMBDA r : r.function # None)
\* the step is the invalid_url_for repair of an issue whose template is there,
\* with a route without function among the routes
RepairWithNullHandler ==
    /\ HasIssue("invalid_url_for")
    /\ template_path_of(det, fs, Issue.template) # <<>>
    /\ \E r \in Range(get_routes(det, fs)) : r.function = None
\* C27: with a route without function among the routes, the invalid_url_for
\* repair leaves that route out and matches the reference against the endpoints
\* of the other routes: when one of them is close enough, the reference is
\* replaced by it and the Fix recorded.
C27_NullHandlersIgnored ==
    [][RepairWithNullHandler =>
           LET similar == get_close_matches(Issue.endpoint,
                              endpoints_of(NamedRoutes(get_routes(det, fs))))
           IN  similar.found =>
                   /\ Len(fixes'.templates) = Len(fixes.templates) + 1
                   /\ fixes'.templates[Len(fixes'.templates)].type = "fixed_url_for"
                   /\ fixes'.templates[Len(fixes'.templates)].new_endpoint
                          = similar.match]_vars

\* the application files of d, in discovery order, in which the analysis finds
\* a factory function / an application instance
FilesWithFactory(d, tree) ==
    SelectSeq(d.app_files, LAMBDA f :
        factories_in(f, Parse(ReadLines(tree, f)), ReadLines(tree, f)) # <<>>)
FilesWithInstance(d, tree) ==
    SelectSeq(d.app_files, LAMBDA f :
        instances_in(f, Parse(ReadLines(tree, f)), ReadLines(tree, f)) # <<>>)
\* the pattern and the descriptor of d are those the priority gives for the tree
PatternByPriority(d, tree) ==
    IF FilesWithFactory(d, tree) # <<>>
    THEN /\ d.pattern = "factory"
         /\ d.factory_function
                = factories_in(FilesWithFactory(d, tree)[1],
                               Parse(ReadLines(tree, FilesWithFactory(d, tree)[1])),
                               ReadLines(tree, FilesWithFactory(d, tree)[1]))[1]
         /\ d.app_instance = NoDescriptor
    ELSE IF FilesWithInstance(d, tree) # <<>>
    THEN /\ d.pattern = IF d.blueprint_files # <<>> THEN "modular" ELSE "monolithic"
         /\ d.app_instance
                = instances_in(FilesWithInstance(d, tree)[1],
                               Parse(ReadLines(tree, FilesWithInstance(d, tree)[1])),
                               ReadLines(tree, FilesWithInstance(d, tree)[1]))[1]
         /\ d.factory_function = NoDescriptor
    ELSE /\ d.pattern = "unknown"
         /\ d.factory_function = NoDescriptor
         /\ d.app_instance = NoDescriptor
\* C28: detect resolves the entry pattern by priority: with a factory function
\* found the pattern is factory and the first one found (in file discovery
\* order) is the descriptor; else with an application instance found the
\* pattern is modular when there are blueprint files and monolithic otherwise,
\* and the first instance is the descriptor; else the pattern is unknown.  The
\* detector never holds a factory descriptor and an instance descriptor both.
C28_FactoryBeforeInstance ==
    /\ [][pc = "detect" => PatternByPriority(det', fs)]_vars
    /\ [](det.factory_function = NoDescriptor \/ det.app_instance = NoDescriptor)
\* detect has found application instances and two factory functions, and has
\* chosen the first factory
C28_Witness ==
    /\ pc = "diagnose"
    /\ det.app_instances # <<>>
    /\ Len(det.factory_functions) >= 2
    /\ det.pattern = "factory"
    /\ det.factory_function = det.factory_functions[1]

\* the first kind of the table with a marker in the text, None when there is none
KindIn(text) ==
    LET kinds == {t \in 1..Len(db_patterns) :
                     \E q \in 1..Len(db_patterns[t].pats) :
                         InContent(text, db_patterns[t].pats[q])}
    IN  IF kinds = {} THEN None ELSE db_patterns[MinOf(kinds)].type
\* the kind of the first of the files that holds a marker, None when none does
RECURSIVE FirstKind(_, _)
FirstKind(files, tree) ==
    IF files = <<>> THEN None
    ELSE IF IsFile(tree, Head(files)) /\ KindIn(ReadLines(tree, Head(files))) # None
    THEN KindIn(ReadLines(tree, Head(files)))
    ELSE FirstKind(Tail(files), tree)
\* C29: detect decides the database kind by the first file that holds a marker,
\* the application files scanned first and the configuration files after
\* them, and within that file by the first kind of the table (sqlite,
\* postgresql, mysql, mongodb) that has a marker in it; with no marker in any
\* file the kind is unknown_sql when there are model files and none otherwise.
C29_FirstMarkedFileDecides ==
    [][pc = "detect" =>
           det'.database =
               IF FirstKind(det'.app_files \o det'.config_files, fs) # None
               THEN FirstKind(det'.app_files \o det'.config_files, fs)
               ELSE IF det'.model_files # <<>> THEN "unknown_sql" ELSE "none"]_vars
\* detect has taken the kind of the first file, mysql, although a later file
\* holds a marker of sqlite, the first kind of the table
C29_Witness ==
    /\ pc = "diagnose"
    /\ det.database = "mysql"
    /\ Len(det.app_files) = 2
    /\ KindIn(ReadLines(fs, det.app_files[2])) = "sqlite"

(***************************************************************************)
(* C30.  The files a heal session has copied under backups/ are outside    *)
(* the later runs: when heal has returned, the scan of the next run        *)
(* (detect on the tree heal left) puts no file and no directory under      *)
(* backups/ in the detector's lists, the diagnosis of the next run names   *)
(* no file under backups/, and the backup files are therefore left as      *)
(* they were written.                                                      *)
(***************************************************************************)
UnderBackups(path) == Len(path) > 0 /\ path[1] = BackupRoot[1]
ScannedPaths(d) == UNION {Range(d[l]) : l \in FileSets}
IssuesOnFiles(i) ==
    {x \in UNION {Range(i[c]) : c \in DOMAIN i} : "file" \in DOMAIN x}
C30_BackupsNeverScanned ==
    pc = "done" /\ HealReturned =>
        /\ \A path \in ScannedPaths(detect(fs)) : ~UnderBackups(path)
        /\ \A x \in IssuesOnFiles(issues2) : ~UnderBackups(x.file)
====
